---------------------------- MODULE Spec2Model ----------------------------
(***************************************************************************)
(* A model of the OCR core of obsidian-wasm-ocr (src/src/core) .          *)
(*                                                                         *)
(* Conventions.  A C++ float or double is modelled as an exact rational    *)
(* [n |-> numerator, d |-> denominator > 0] in lowest terms; IEEE rounding *)
(* is not modelled.  The two neural networks are external: what they       *)
(* return (the probability surface, the per-timestep score matrix) is an   *)
(* input drawn from a bounded set.  C++ indices start at 0, TLA+ sequences *)
(* at 1: element j of an array is element j + 1 of the sequence.           *)
(***************************************************************************)
EXTENDS Integers, Sequences, FiniteSets, TLC

VARIABLES
    rec_out,    \* recognize_text: the score matrix `out` (T rows of K scores)
    text,       \* recognize_text: object.text, the decoded glyphs
    decoded,    \* recognize_text has returned
    src_pts,    \* get_affine_transform: src[0..2]
    dst_pts,    \* get_affine_transform: dst[0..2]
    mat,        \* get_affine_transform: the Matrix2x3 returned, or NoValue
    warp_src,   \* warp_affine_bilinear: src, a planar image of 3 channels
    warp_M,     \* warp_affine_bilinear: M
    warp_size,  \* warp_affine_bilinear: <<dst_w, dst_h>>
    warp_dst,   \* warp_affine_bilinear: dst, or NoValue before the call
    box_in,     \* detect_text, one contour: its score, fitted rrect, scale, pads
    box_out,    \* detect_text, one contour: the Object appended, or a skip
    m_text_score_threshold, \* OCREngine::m_text_score_threshold
    last_set,   \* the argument of the latest set_text_score_threshold, if any
    call,       \* detect: its arguments while a call is being served
    det_map,    \* detect: what the detection network returned in this call
    rec_outs,   \* detect: what the recognition network returned, per region
    det_contours, \* detect_text: `contours`, the components kept by the scan
    detected,   \* detect: `objects` as detect_text left it
    objects,    \* detect: `objects` after the recognition loop
    result,     \* detect: the JSON text returned, as the value it denotes
    net_calls,  \* detect: the network runs of this call, [det, rec]
    ext_in,     \* detect_text post-processing: the surface, scale and pads
    ext_out,    \* detect_text post-processing: [contours, outcomes], or NoValue
    scan_in,    \* detect_text component scan: the surface
    scan_out,   \* detect_text component scan: [contours], or NoValue
    crop_in,    \* crop_and_warp_roi: img_w, img_h and the object
    crop_out,   \* crop_and_warp_roi: its locals before the warp, or NoValue
    ocr_engine, \* OcrEngine: worker, initPromise, pendingRequests, nextRequestId
    ocr_files,  \* the four model files are in the models directory
    ocr_worker, \* the worker: its message queue, isInitialized, ocrModule
    ocr_replies, \* messages posted by the worker, not yet handled
    ocr_calls,  \* the calls of init, detect and setThreshold, and their ends
    p_procs,    \* OcrPlugin: the calls of processQueue suspended at an await
    p_hist,     \* OcrPlugin: what was analysed and written, per item
    json_dict,  \* detect, JSON build: character_dict, a sequence of strings
    json_ids,   \* detect, JSON build: the ids of obj.text
    json_out,   \* detect, JSON build: the characters written between the quotes
    json_parsed, \* worker: what JSON.parse makes of the string literal
    q_engine,   \* OcrPlugin.ocrEngine is set
    q_items,    \* useAnalysisStore: the status of each of `items`
    q_procs,    \* the item indices that calls of processQueue wait for
    items,            \* useAnalysisStore: items, [id, status] each
    currentIndex,     \* useAnalysisStore: currentIndex
    selectedIndices,  \* useAnalysisStore: selectedIndices
    activeRange,      \* useAnalysisStore: activeRange, NoValue for null
    resultsCache,     \* useAnalysisStore: resultsCache, its entries in Map order
    sourceId,         \* useAnalysisStore: sourceId, NoValue for null
    mergeLines,       \* useAnalysisStore: mergeLines
    store_call        \* the latest call of a store action: [op, nth]

decode_vars == <<rec_out, text, decoded>>
affine_vars == <<src_pts, dst_pts, mat>>
warp_vars == <<warp_src, warp_M, warp_size, warp_dst>>
box_vars == <<box_in, box_out>>
engine_vars == <<m_text_score_threshold, last_set>>
detect_vars ==
    <<call, det_map, rec_outs, det_contours, detected, objects, result, net_calls>>
extract_vars == <<ext_in, ext_out>>
scan_vars == <<scan_in, scan_out>>
crop_vars == <<crop_in, crop_out>>
ocr_vars == <<ocr_engine, ocr_files, ocr_worker, ocr_replies, ocr_calls>>
plugin_vars == <<p_procs, p_hist>>
core_vars ==
    <<decode_vars, affine_vars, warp_vars, box_vars, engine_vars, detect_vars>>
json_vars == <<json_dict, json_ids, json_out, json_parsed>>
queue_vars == <<q_engine, q_items, q_procs>>
store_state ==
    <<items, currentIndex, selectedIndices, activeRange, resultsCache, sourceId,
      mergeLines>>
store_vars == <<store_state, store_call>>
other_vars ==
    <<extract_vars, scan_vars, crop_vars, ocr_vars, plugin_vars, json_vars, queue_vars, store_vars>>
vars == <<core_vars, other_vars>>

NoValue == [none |-> TRUE]

(***************************************************************************)
(* Exact rationals standing for float / double values.                     *)
(***************************************************************************)
Abs(x) == IF x < 0 THEN -x ELSE x

RECURSIVE GCD(_, _)
GCD(a, b) == IF b = 0 THEN a ELSE GCD(b, a % b)

Rat(n, d) ==
    LET s == IF d < 0 THEN -1 ELSE 1
        g == GCD(Abs(n), Abs(d))
    IN  [n |-> (s * n) \div g, d |-> (s * d) \div g]

RInt(k) == [n |-> k, d |-> 1]
RAdd(a, b) ==
    LET g == GCD(a.d, b.d)
    IN  Rat(a.n * (b.d \div g) + b.n * (a.d \div g), (a.d \div g) * b.d)
RNeg(a) == [n |-> -a.n, d |-> a.d]
RSub(a, b) == RAdd(a, RNeg(b))
RMul(a, b) ==
    LET g1 == GCD(Abs(a.n), b.d)
        g2 == GCD(Abs(b.n), a.d)
    IN  [n |-> (a.n \div g1) * (b.n \div g2), d |-> (a.d \div g2) * (b.d \div g1)]
\* a / b for b # 0
RDiv(a, b) ==
    RMul(a, IF b.n < 0 THEN [n |-> -b.d, d |-> -b.n] ELSE [n |-> b.d, d |-> b.n])
RAbs(a) == [n |-> Abs(a.n), d |-> a.d]

\* a < b, by comparing integer parts and then the reciprocals of the
\* fractional parts, so that no product of numerators and denominators is
\* formed.
RECURSIVE RLt(_, _)
RLt(a, b) ==
    LET qa == a.n \div a.d
        qb == b.n \div b.d
        ra == a.n % a.d
        rb == b.n % b.d
    IN  IF qa # qb THEN qa < qb
        ELSE IF rb = 0 THEN FALSE
        ELSE IF ra = 0 THEN TRUE
        ELSE RLt([n |-> b.d, d |-> rb], [n |-> a.d, d |-> ra])

RGt(a, b) == RLt(b, a)
RLe(a, b) == ~RLt(b, a)
RGe(a, b) == ~RLt(a, b)

\* (int)x : the C++ conversion truncates toward zero.
RTrunc(a) == IF a.n >= 0 THEN a.n \div a.d ELSE -((-a.n) \div a.d)

(***************************************************************************)
(* Sequence Decoder: the CTC greedy decode of OCREngine::recognize_text.   *)
(***************************************************************************)
\* The inner loop over j: index and max_score after the classes 0 .. j-1 of
\* row p have been read, starting from index = 0, max_score = -9999.
RECURSIVE ArgMaxFrom(_, _, _, _)
ArgMaxFrom(p, j, index, max_score) ==
    IF j >= Len(p) THEN [index |-> index, max_score |-> max_score]
    ELSE IF RGt(p[j + 1], max_score)
         THEN ArgMaxFrom(p, j + 1, j, p[j + 1])
         ELSE ArgMaxFrom(p, j + 1, index, max_score)

ArgMaxRow(p) == ArgMaxFrom(p, 0, 0, RInt(-9999))

\* A decoder that forgets to record a blank as the previous token.
RECURSIVE DecodeKeepsTokenOverBlank(_, _, _, _)
DecodeKeepsTokenOverBlank(out, i, last_token, glyphs) ==
    IF i >= Len(out) THEN glyphs
    ELSE LET am == ArgMaxRow(out[i + 1]) IN
         IF am.index <= 0 \/ last_token = am.index
         THEN DecodeKeepsTokenOverBlank(out, i + 1, last_token, glyphs)
         ELSE DecodeKeepsTokenOverBlank(out, i + 1, am.index,
                  Append(glyphs, [id |-> am.index - 1, prob |-> am.max_score]))

\* A decoder that drops blanks but does not merge repeated timesteps.
RECURSIVE DecodeWithoutMerge(_, _, _, _)
DecodeWithoutMerge(out, i, last_token, glyphs) ==
    IF i >= Len(out) THEN glyphs
    ELSE LET am == ArgMaxRow(out[i + 1]) IN
         IF am.index <= 0
         THEN DecodeWithoutMerge(out, i + 1, am.index, glyphs)
         ELSE DecodeWithoutMerge(out, i + 1, am.index,
                  Append(glyphs, [id |-> am.index - 1, prob |-> am.max_score]))

\* The loop over the timesteps i = 0 .. out.h - 1, from timestep i on.
RECURSIVE DecodeFrom(_, _, _, _)
DecodeFrom(out, i, last_token, glyphs) ==
    IF i >= Len(out) THEN glyphs
    ELSE LET am == ArgMaxRow(out[i + 1]) IN
         IF last_token = am.index
         THEN DecodeFrom(out, i + 1, last_token, glyphs)        \* CTC merge
         ELSE IF am.index <= 0
         THEN DecodeFrom(out, i + 1, am.index, glyphs)          \* blank
         ELSE DecodeFrom(out, i + 1, am.index,
                  Append(glyphs, [id |-> am.index - 1, prob |-> am.max_score]))

\* int last_token = 0; for (i ...) ... object.text.push_back(ch)
CTCDecode(out, glyphs) == DecodeFrom(out, 0, 0, glyphs)

(***************************************************************************)
(* Bounds and inputs of the decoder.                                       *)
(***************************************************************************)
MaxT == 3          \* timesteps of an enumerated score matrix
MaxRepeat == 3     \* repetitions tried by the repeat-collapse property

Classes == 0 .. 2
ScoreVals == {Rat(1, 10), Rat(9, 10)}

ScoreRows == [1 .. Cardinality(Classes) -> ScoreVals]
ScoreMatrices == UNION {[1 .. t -> ScoreRows] : t \in 0 .. MaxT}

\* The matrix with K classes whose row t has score `hi` at class s[t] and
\* score `lo` elsewhere.
OneHot(s, K, hi, lo) ==
    [t \in 1 .. Len(s) |-> [j \in 1 .. K |-> IF j - 1 = s[t] THEN hi ELSE lo]]

ExampleClasses == <<0, 0, 3, 3, 3, 0, 5, 5, 0, 0>>
ExampleMatrix == OneHot(ExampleClasses, 6, Rat(9, 10), Rat(1, 50))

DecodeInputs == ScoreMatrices \cup {ExampleMatrix}

(***************************************************************************)
(* SpecDecode: recognize_text's decode applied to one score matrix.        *)
(***************************************************************************)
DecodeIdle == rec_out = <<>> /\ text = <<>> /\ decoded = FALSE
AffineIdle == src_pts = <<>> /\ dst_pts = <<>> /\ mat = NoValue
WarpIdle ==
    warp_src = NoValue /\ warp_M = <<>> /\ warp_size = <<>> /\ warp_dst = NoValue

BoxIdle == box_in = NoValue /\ box_out = NoValue

\* No engine call is being served; the threshold has its initial value.
DetectIdle ==
    /\ call = NoValue /\ det_map = NoValue /\ rec_outs = <<>>
    /\ det_contours = <<>> /\ detected = <<>> /\ objects = <<>> /\ result = NoValue
    /\ net_calls = [det |-> 0, rec |-> 0]
EngineIdle ==
    m_text_score_threshold = Rat(1, 2) /\ last_set = NoValue /\ DetectIdle

ExtractIdle == ext_in = NoValue /\ ext_out = NoValue
ScanIdle == scan_in = NoValue /\ scan_out = NoValue
CropIdle == crop_in = NoValue /\ crop_out = NoValue
OcrIdle ==
    /\ ocr_engine = NoValue /\ ocr_files = FALSE /\ ocr_worker = NoValue
    /\ ocr_replies = <<>> /\ ocr_calls = <<>>
PluginIdle == p_procs = <<>> /\ p_hist = NoValue
JsonIdle ==
    json_dict = <<>> /\ json_ids = <<>> /\ json_out = NoValue /\ json_parsed = NoValue
QueueIdle == q_engine = FALSE /\ q_items = <<>> /\ q_procs = <<>>
\* create<AnalysisState>(...): the initial state of the store
StoreIdle ==
    /\ items = <<>> /\ currentIndex = 0 /\ selectedIndices = <<>>
    /\ activeRange = NoValue /\ resultsCache = <<>> /\ sourceId = NoValue
    /\ mergeLines = FALSE
    /\ store_call = NoValue
OthersIdle ==
    ExtractIdle /\ ScanIdle /\ CropIdle /\ OcrIdle /\ PluginIdle /\ JsonIdle /\ QueueIdle /\ StoreIdle
CoreIdle == DecodeIdle /\ AffineIdle /\ WarpIdle /\ BoxIdle /\ EngineIdle

InitDecode ==
    /\ rec_out \in DecodeInputs
    /\ text = <<>>
    /\ decoded = FALSE
    /\ AffineIdle /\ WarpIdle /\ BoxIdle /\ EngineIdle /\ OthersIdle

RecognizeText ==
    /\ ~decoded
    /\ text' = CTCDecode(rec_out, text)
    /\ decoded' = TRUE
    /\ UNCHANGED <<rec_out, affine_vars, warp_vars, box_vars,
                   engine_vars, detect_vars, other_vars>>

NextDecode == RecognizeText

SpecDecode == InitDecode /\ [][NextDecode]_vars

\* The arg-max class of a row, stated without the loop: the first class whose
\* score no other class exceeds.
MaxClass(p) ==
    CHOOSE c \in 0 .. Len(p) - 1 :
        /\ \A j \in 0 .. Len(p) - 1 : RGe(p[c + 1], p[j + 1])
        /\ \A j \in 0 .. c - 1 : RLt(p[j + 1], p[c + 1])

PrevClass(out, t) == IF t = 1 THEN 0 ELSE MaxClass(out[t - 1])

\* The timesteps (1-based) at which the Sequence Decoder rule emits.
Emitting(out) ==
    {t \in 1 .. Len(out) :
        MaxClass(out[t]) # PrevClass(out, t) /\ MaxClass(out[t]) # 0}

KthEmitting(out, k) ==
    CHOOSE t \in Emitting(out) : Cardinality({u \in Emitting(out) : u <= t}) = k

GlyphIds(glyphs) == [k \in 1 .. Len(glyphs) |-> glyphs[k].id]

\* Each row of `out` repeated n times in place.
RepeatRows(out, n) ==
    [k \in 1 .. n * Len(out) |-> out[((k - 1) \div n) + 1]]

\* C1: after recognize_text, the glyphs are exactly the timesteps whose
\* arg-max class differs from the previous timestep's arg-max (0 before the
\* first timestep) and is not the blank class 0, in timestep order, each as
\* {id = class - 1, confidence = score of the class}; an all-blank matrix
\* decodes to the empty sequence.
C1_DecodeRule ==
    decoded =>
        /\ Len(text) = Cardinality(Emitting(rec_out))
        /\ \A k \in 1 .. Len(text) :
              LET row == rec_out[KthEmitting(rec_out, k)] IN
              text[k] = [id |-> MaxClass(row) - 1, prob |-> row[MaxClass(row) + 1]]
        /\ (\A t \in 1 .. Len(rec_out) : MaxClass(rec_out[t]) = 0) => text = <<>>

\* A character, a blank, and the same character again: two glyphs.
C1_Witness ==
    /\ decoded
    /\ Len(rec_out) = 3
    /\ MaxClass(rec_out[1]) = 1
    /\ MaxClass(rec_out[2]) = 0
    /\ MaxClass(rec_out[3]) = 1
    /\ GlyphIds(text) = <<0, 0>>

\* C2: decoding the matrix with every timestep repeated n times in place
\* gives the same glyph ids as decoding the matrix itself, for n = 1 ..
\* MaxRepeat.
C2_RepeatCollapse ==
    decoded =>
        \A n \in 1 .. MaxRepeat :
            GlyphIds(CTCDecode(RepeatRows(rec_out, n), <<>>)) = GlyphIds(text)

\* The example of the specification: [0,0,3,3,3,0,5,5,0,0] decodes to [2,4].
C2_Witness ==
    /\ decoded
    /\ rec_out = ExampleMatrix
    /\ GlyphIds(text) = <<2, 4>>
    /\ GlyphIds(CTCDecode(RepeatRows(rec_out, 2), <<>>)) = <<2, 4>>

(***************************************************************************)
(* Geometry primitives: get_affine_transform.                              *)
(***************************************************************************)
Pt(x, y) == [x |-> x, y |-> y]

\* A float sum / difference of three terms, left to right.
RSum3(a, b, c) == RAdd(RAdd(a, b), c)

\* float det = x1 * (y2 - y3) - y1 * (x2 - x3) + (x2 * y3 - x3 * y2)
AffineDet(src) ==
    LET x1 == src[1].x  y1 == src[1].y
        x2 == src[2].x  y2 == src[2].y
        x3 == src[3].x  y3 == src[3].y
    IN  RAdd(RSub(RMul(x1, RSub(y2, y3)), RMul(y1, RSub(x2, x3))),
             RSub(RMul(x2, y3), RMul(x3, y2)))

DetEpsilon == Rat(1, 1000000)

\* A degeneracy test that only catches an exactly zero determinant.
DetIsZero(det) == det.n = 0

\* if (std::abs(det) < 1e-6)
AffineDegenerate(det) == RLt(RAbs(det), DetEpsilon)

IdentityMatrix == <<RInt(1), RInt(0), RInt(0), RInt(0), RInt(1), RInt(0)>>

\* A solver whose translation terms m[2], m[5] miss their last summand.
AffineRowShortTranslation(src, X1, X2, X3, A) ==
    LET x1 == src[1].x  y1 == src[1].y
        x2 == src[2].x  y2 == src[2].y
        x3 == src[3].x  y3 == src[3].y
    IN  << RDiv(RAdd(RSub(RMul(X1, RSub(y2, y3)), RMul(y1, RSub(X2, X3))),
                     RSub(RMul(X2, y3), RMul(X3, y2))), A),
           RDiv(RAdd(RSub(RMul(x1, RSub(X2, X3)), RMul(X1, RSub(x2, x3))),
                     RSub(RMul(x2, X3), RMul(x3, X2))), A),
           RDiv(RSub(RMul(x1, RSub(RMul(y2, X3), RMul(y3, X2))),
                     RMul(y1, RSub(RMul(x2, X3), RMul(x3, X2)))), A) >>

\* One row (a, b, c) of the solution, for the destination coordinates
\* X1, X2, X3 (mat.m[0..2] with dst x, mat.m[3..5] with dst y), over A.
AffineRow(src, X1, X2, X3, A) ==
    LET x1 == src[1].x  y1 == src[1].y
        x2 == src[2].x  y2 == src[2].y
        x3 == src[3].x  y3 == src[3].y
    IN  << RDiv(RAdd(RSub(RMul(X1, RSub(y2, y3)), RMul(y1, RSub(X2, X3))),
                     RSub(RMul(X2, y3), RMul(X3, y2))), A),
           RDiv(RAdd(RSub(RMul(x1, RSub(X2, X3)), RMul(X1, RSub(x2, x3))),
                     RSub(RMul(x2, X3), RMul(x3, X2))), A),
           RDiv(RSum3(RMul(x1, RSub(RMul(y2, X3), RMul(y3, X2))),
                      RNeg(RMul(y1, RSub(RMul(x2, X3), RMul(x3, X2)))),
                      RMul(X1, RSub(RMul(x2, y3), RMul(x3, y2)))), A) >>

\* The six entries after the degeneracy test: mat.m[0..5], each a division
\* by A (the first assignment of mat.m[0], through inv_det, is overwritten).
AffineSolve(src, dst) ==
    LET A == AffineDet(src)
    IN  AffineRow(src, dst[1].x, dst[2].x, dst[3].x, A)
            \o AffineRow(src, dst[1].y, dst[2].y, dst[3].y, A)

\* The Matrix2x3 returned, with `divs`, the number of divisions by det or A
\* executed on the way (1.0f / det and the six entries).
get_affine_transform(src, dst) ==
    IF AffineDegenerate(AffineDet(src))
    THEN [m |-> IdentityMatrix, divs |-> 0]
    ELSE [m |-> AffineSolve(src, dst), divs |-> 7]

\* (a*x + b*y + c, d*x + e*y + f)
ApplyAffine(m, p) ==
    Pt(RSum3(RMul(m[1], p.x), RMul(m[2], p.y), m[3]),
       RSum3(RMul(m[4], p.x), RMul(m[5], p.y), m[6]))

\* Inputs: source coordinates include a sub-pixel value that makes
\* determinants below, at and above 1e-6; the destination corners are those
\* of a strip.
SrcCoords == {RInt(0), Rat(1, 2000), Rat(1, 1000), RInt(2)}
SrcPoints == {Pt(x, y) : x \in SrcCoords, y \in SrcCoords}
StripCorners(W) == <<Pt(RInt(0), RInt(0)), Pt(RInt(W), RInt(0)), Pt(RInt(0), RInt(48))>>
DstTriples ==
    { StripCorners(16), StripCorners(48),
      <<Pt(RInt(48), RInt(48)), Pt(RInt(0), RInt(48)), Pt(RInt(48), RInt(0))>>,
      <<Pt(RInt(16), RInt(0)), Pt(RInt(16), RInt(0)), Pt(RInt(16), RInt(0))>> }

InitAffine ==
    /\ src_pts \in [1 .. 3 -> SrcPoints]
    /\ dst_pts \in DstTriples
    /\ mat = NoValue
    /\ DecodeIdle /\ WarpIdle /\ BoxIdle /\ EngineIdle /\ OthersIdle

GetAffineTransform ==
    /\ mat = NoValue
    /\ mat' = get_affine_transform(src_pts, dst_pts)
    /\ UNCHANGED <<src_pts, dst_pts, decode_vars, warp_vars, box_vars,
                   engine_vars, detect_vars, other_vars>>

NextAffine == GetAffineTransform

SpecAffine == InitAffine /\ [][NextAffine]_vars

\* The determinant of the claim: A = x1(y2-y3) - y1(x2-x3) + x2*y3 - x3*y2.
TwiceSignedArea(p) ==
    RSum3(RMul(p[1].x, RSub(p[2].y, p[3].y)),
          RNeg(RMul(p[1].y, RSub(p[2].x, p[3].x))),
          RSub(RMul(p[2].x, p[3].y), RMul(p[3].x, p[2].y)))

\* C8: when |A| >= 1e-6 the returned transform maps each source point to its
\* destination point (exact arithmetic).
C8_AffineRoundTrip ==
    (mat # NoValue /\ RGe(RAbs(TwiceSignedArea(src_pts)), Rat(1, 1000000))) =>
        \A i \in 1 .. 3 : ApplyAffine(mat.m, src_pts[i]) = dst_pts[i]

\* A solved, non-identity transform of a thin (sub-pixel) source triangle.
C8_Witness ==
    /\ mat # NoValue
    /\ mat.divs > 0
    /\ mat.m # IdentityMatrix
    /\ src_pts[2] # src_pts[3]
    /\ TwiceSignedArea(src_pts) = Rat(1, 1000000)
    /\ dst_pts = StripCorners(48)

\* C9: when |A| < 1e-6 the result is exactly (1,0,0,0,1,0) whatever the
\* destination points, and no division by A was executed.
C9_DegenerateIdentity ==
    (mat # NoValue /\ RLt(RAbs(TwiceSignedArea(src_pts)), Rat(1, 1000000))) =>
        /\ mat.m = IdentityMatrix
        /\ mat.divs = 0

\* Three distinct, non-collinear source points whose determinant is below
\* 1e-6, with destination points that are not the source points.
C9_Witness ==
    /\ mat # NoValue
    /\ TwiceSignedArea(src_pts).n # 0
    /\ RLt(RAbs(TwiceSignedArea(src_pts)), Rat(1, 1000000))
    /\ dst_pts = StripCorners(48)
    /\ mat.m = IdentityMatrix

(***************************************************************************)
(* Geometry primitives: warp_affine_bilinear.                              *)
(* An image (ncnn::Mat of 3 channels) is [w, h, data], data[c + 1] the     *)
(* channel c in row-major order: pixel (x, y) is data[c + 1][y * w + x + 1]*)
(***************************************************************************)
Min(a, b) == IF a < b THEN a ELSE b
Max(a, b) == IF a > b THEN a ELSE b

\* (unsigned)a < (unsigned)b for 32-bit ints a, b
UnsignedLess(a, b) == IF (a >= 0) <=> (b >= 0) THEN a < b ELSE b < 0

\* A clamp whose upper limit is one short.
ClampIndexShort(i, n) == Max(0, Min(i, n - 2))

\* std::max(0, std::min(i, n - 1))
ClampIndex(i, n) == Max(0, Min(i, n - 1))

\* double D = M.m[0] * M.m[4] - M.m[1] * M.m[3]
WarpDet(M) == RSub(RMul(M[1], M[5]), RMul(M[2], M[4]))

\* iM[0..5]
InverseAffine(M) ==
    LET invD == RDiv(RInt(1), WarpDet(M))
    IN  << RMul(M[5], invD),
           RMul(RNeg(M[2]), invD),
           RMul(RSub(RMul(M[2], M[6]), RMul(M[3], M[5])), invD),
           RMul(RNeg(M[4]), invD),
           RMul(M[1], invD),
           RMul(RSub(RMul(M[3], M[4]), RMul(M[1], M[6])), invD) >>

Bilinear(v00, v01, v10, v11, u, v) ==
    LET one == RInt(1) IN
    RAdd(RAdd(RMul(RMul(v00, RSub(one, u)), RSub(one, v)),
              RMul(RMul(v01, u), RSub(one, v))),
         RAdd(RMul(RMul(v10, RSub(one, u)), v),
              RMul(RMul(v11, u), v)))

\* The value written for one destination pixel whose source coordinate is
\* (sx, sy): the fast path inside the image, the clamped path at the border.
WarpSample(ch, src_w, src_h, sx, sy) ==
    LET x0 == RTrunc(sx)
        y0 == RTrunc(sy)
        u == RSub(sx, RInt(x0))
        v == RSub(sy, RInt(y0))
    IN  IF UnsignedLess(x0, src_w - 1) /\ UnsignedLess(y0, src_h - 1)
        THEN LET p == y0 * src_w + x0 + 1
             IN  Bilinear(ch[p], ch[p + 1], ch[p + src_w], ch[p + src_w + 1], u, v)
        ELSE LET x0_c == ClampIndex(x0, src_w)
                 y0_c == ClampIndex(y0, src_h)
                 x1_c == ClampIndex(x0 + 1, src_w)
                 y1_c == ClampIndex(y0 + 1, src_h)
             IN  Bilinear(ch[y0_c * src_w + x0_c + 1], ch[y0_c * src_w + x1_c + 1],
                          ch[y1_c * src_w + x0_c + 1], ch[y1_c * src_w + x1_c + 1], u, v)

\* dst after the loops over c, dy, dx: sx = row_start_x[dy] + dx * sx_step,
\* sy = row_start_y[dy] + dx * sy_step.
WarpFill(src, M, dst_w, dst_h) ==
    LET iM == InverseAffine(M)
        sx(dx, dy) == RAdd(RAdd(RMul(RInt(dy), iM[2]), iM[3]), RMul(RInt(dx), iM[1]))
        sy(dx, dy) == RAdd(RAdd(RMul(RInt(dy), iM[5]), iM[6]), RMul(RInt(dx), iM[4]))
    IN  [w |-> dst_w, h |-> dst_h,
         data |-> [c \in 1 .. 3 |->
                    [k \in 1 .. dst_w * dst_h |->
                        WarpSample(src.data[c], src.w, src.h,
                                   sx((k - 1) % dst_w, (k - 1) \div dst_w),
                                   sy((k - 1) % dst_w, (k - 1) \div dst_w))]]]

FlatImage(w, h, g) ==
    [w |-> w, h |-> h, data |-> [c \in 1 .. 3 |-> [k \in 1 .. w * h |-> g]]]

\* dst.create(dst_w, dst_h, 3) allocates without writing: what the buffer
\* holds if the function returns early is not determined by the program.
UninitValues == {RInt(0), RInt(255)}
UninitImages(w, h) == {FlatImage(w, h, g) : g \in UninitValues}

\* if (std::abs(D) < 1e-6) return;
WarpDegenerate(M) == RLt(RAbs(WarpDet(M)), Rat(1, 1000000))

\* Inputs.  The tagged image gives every pixel of every channel its own
\* value.
MaxSrcSide == 2
MaxDstSide == 3

TaggedImage(w, h) ==
    [w |-> w, h |-> h,
     data |-> [c \in 1 .. 3 |-> [k \in 1 .. w * h |-> RInt(100 * c + k)]]]

WarpSources ==
    {TaggedImage(w, h) : w \in 1 .. MaxSrcSide, h \in 1 .. MaxSrcSide}
        \cup {FlatImage(w, h, RInt(7)) : w \in 1 .. MaxSrcSide, h \in 1 .. MaxSrcSide}

Translate(tx, ty) == <<RInt(1), RInt(0), tx, RInt(0), RInt(1), ty>>
WarpTransforms ==
    { IdentityMatrix,
      Translate(Rat(-1, 2), RInt(0)),
      Translate(Rat(1, 2), Rat(1, 2)),
      Translate(RInt(-1), RInt(-1)),
      <<RInt(2), RInt(0), RInt(0), RInt(0), RInt(2), RInt(0)>>,
      <<RInt(0), RInt(-1), RInt(1), RInt(1), RInt(0), RInt(0)>>,
      <<RInt(1), RInt(1), RInt(0), RInt(1), RInt(1), RInt(0)>> }

InitWarp ==
    /\ warp_src \in WarpSources
    /\ warp_M \in WarpTransforms
    /\ warp_size \in (1 .. MaxDstSide) \X (1 .. MaxDstSide)
    /\ warp_dst = NoValue
    /\ DecodeIdle /\ AffineIdle /\ BoxIdle /\ EngineIdle /\ OthersIdle

\* warp_affine_bilinear returning early on a singular M
WarpSingular ==
    /\ warp_dst = NoValue
    /\ WarpDegenerate(warp_M)
    /\ warp_dst' \in UninitImages(warp_size[1], warp_size[2])
    /\ UNCHANGED <<warp_src, warp_M, warp_size, decode_vars, affine_vars, box_vars,
                   engine_vars, detect_vars, other_vars>>

\* warp_affine_bilinear on an invertible M
WarpAffineBilinear ==
    /\ warp_dst = NoValue
    /\ ~WarpDegenerate(warp_M)
    /\ warp_dst' = WarpFill(warp_src, warp_M, warp_size[1], warp_size[2])
    /\ UNCHANGED <<warp_src, warp_M, warp_size, decode_vars, affine_vars, box_vars,
                   engine_vars, detect_vars, other_vars>>

NextWarp == WarpSingular \/ WarpAffineBilinear

SpecWarp == InitWarp /\ [][NextWarp]_vars

\* C10: with the identity transform and dst_w = src.w, dst_h = src.h, every
\* channel and pixel of dst equals the same pixel of src.
C10_WarpIdentity ==
    ( /\ warp_dst # NoValue
      /\ warp_M = <<RInt(1), RInt(0), RInt(0), RInt(0), RInt(1), RInt(0)>>
      /\ warp_size = <<warp_src.w, warp_src.h>> ) =>
        \A c \in 1 .. 3 : \A y \in 0 .. warp_src.h - 1 : \A x \in 0 .. warp_src.w - 1 :
            warp_dst.data[c][y * warp_src.w + x + 1]
                = warp_src.data[c][y * warp_src.w + x + 1]

\* An identity warp of a 2 x 2 image whose pixels are all different.
C10_Witness ==
    /\ warp_dst # NoValue
    /\ warp_M = IdentityMatrix
    /\ warp_src = TaggedImage(2, 2)
    /\ warp_size = <<2, 2>>
    /\ warp_dst = warp_src

(***************************************************************************)
(* Region Extractor: what detect_text does with one contour after it has   *)
(* been scored and fitted (the body of the loop over contours).            *)
(* A RotatedRect is [center, size, angle], size = [width, height].         *)
(***************************************************************************)
RRect(cx, cy, w, h, angle) ==
    [center |-> Pt(cx, cy), size |-> [width |-> w, height |-> h], angle |-> angle]

RMax(a, b) == IF RLt(a, b) THEN b ELSE a

box_thresh == Rat(6, 10)
enlarge_ratio == Rat(195, 100)
AspectLimit == RInt(120)
RatioEpsilon == Rat(1, 1000000)

\* Orientation and angle normalization: the rrect and orientation after the
\* three conditional adjustments.
NormalizeOrientation(rr) ==
    LET w0 == rr.size.width
        h0 == rr.size.height
        a0 == rr.angle
        vertical ==
            \/ /\ RGe(a0, RInt(-30)) /\ RLe(a0, RInt(30))
               /\ RGt(h0, RMul(w0, Rat(27, 10)))
            \/ /\ (RLe(a0, RInt(-60)) \/ RGe(a0, RInt(60)))
               /\ RGt(w0, RMul(h0, Rat(27, 10)))
        orientation == IF vertical THEN 1 ELSE 0
        a1 == IF RLt(a0, RInt(-30)) THEN RAdd(a0, RInt(180)) ELSE a0
        turn == orientation = 0 /\ RLt(a1, RInt(30))
        a2 == IF turn THEN RAdd(a1, RInt(90)) ELSE a1
        w2 == IF turn THEN h0 ELSE w0
        h2 == IF turn THEN w0 ELSE h0
        back == orientation = 1 /\ RGe(a2, RInt(60))
    IN  [orientation |-> orientation,
         rrect |-> [center |-> rr.center,
                    size |-> [width |-> IF back THEN h2 ELSE w2,
                              height |-> IF back THEN w2 ELSE h2],
                    angle |-> IF back THEN RSub(a2, RInt(90)) ELSE a2]]

\* Enlarge: height += width * (enlarge_ratio - 1); width *= enlarge_ratio
Enlarge(rr) ==
    [rr EXCEPT !.size =
        [width |-> RMul(rr.size.width, enlarge_ratio),
         height |-> RAdd(rr.size.height,
                         RMul(rr.size.width, RSub(enlarge_ratio, RInt(1))))]]

\* Remap to the original image
Remap(rr, scale, wpad, hpad) ==
    [center |-> Pt(RDiv(RSub(rr.center.x, Rat(wpad, 2)), scale),
                   RDiv(RSub(rr.center.y, Rat(hpad, 2)), scale)),
     size |-> [width |-> RDiv(rr.size.width, scale),
               height |-> RDiv(rr.size.height, scale)],
     angle |-> rr.angle]

\* A validation that also rejects boxes with a side under 2.
DegenerateBoxUnderTwo(rr) ==
    RLt(rr.size.width, RInt(2)) \/ RLt(rr.size.height, RInt(2))

\* rrect.size.width < 1.0f || rrect.size.height < 1.0f
DegenerateBox(rr) ==
    RLt(rr.size.width, RInt(1)) \/ RLt(rr.size.height, RInt(1))

\* ratio > limit for float ratio = height / (width + 1e-6f), written as
\* height / limit - width > 1e-6 (width + 1e-6 and limit are positive) so
\* that the quotient, whose numerator does not fit a machine integer of the
\* model checker, is never formed.
RatioAbove(rr, limit) ==
    RGt(RSub(RDiv(rr.size.height, limit), rr.size.width), RatioEpsilon)

\* ratio < limit for the same ratio: height / limit - width < 1e-6
RatioBelow(rr, limit) ==
    RLt(RSub(RDiv(rr.size.height, limit), rr.size.width), RatioEpsilon)

\* An aspect test that has lost its upper limit.
OnlyTooFlat(rr) == RatioBelow(rr, RDiv(RInt(1), AspectLimit))

\* ratio > 120.0f || ratio < (1.0f / 120.0f)
ExtremeRatio(rr) ==
    RatioAbove(rr, AspectLimit) \/ RatioBelow(rr, RDiv(RInt(1), AspectLimit))

Skip(why) == [skip |-> why]
IsObject(o) == "skip" \notin DOMAIN o

\* A loop body without the minimum-size test.
NeverTooSmall(fitted, scale) == FALSE

\* rrect_maxwh < min_size, with min_size = 3 * scale
TooSmall(fitted, scale) ==
    RLt(RMax(fitted.size.width, fitted.size.height), RMul(RInt(3), scale))

\* The loop body for one contour: the reason it is skipped (`continue`), or
\* the Object pushed onto `objects`.
ContourOutcome(score, fitted, scale, wpad, hpad) ==
    IF RLt(score, box_thresh) THEN Skip("score")
    ELSE IF TooSmall(fitted, scale) THEN Skip("min_size")
    ELSE LET norm == NormalizeOrientation(fitted)
             rr == Remap(Enlarge(norm.rrect), scale, wpad, hpad)
         IN  IF DegenerateBox(rr) THEN Skip("degenerate")
             ELSE IF ExtremeRatio(rr) THEN Skip("ratio")
             ELSE [rrect |-> rr, orientation |-> norm.orientation,
                   prob |-> score, text |-> <<>>]

\* Inputs of one loop body.  The fitted sides are chosen so that the
\* remapped box has a side of 0.5, of 1.0, a ratio of 100, of 120 and of 200
\* (with scale 1), besides ordinary boxes; NarrowBand holds the fitted boxes
\* that are remapped to width 1 (2 with scale 1/2) and a ratio of 120.0001.
FittedSides ==
    { Rat(10, 39), Rat(20, 39), RInt(1), RInt(4), RInt(30),
      Rat(3881, 20), Rat(4661, 20), Rat(7781, 20) }
FittedAngles == {RInt(-90), RInt(-45), RInt(0), RInt(30), RInt(60), RInt(90)}
ContourScores == {Rat(1, 2), Rat(6, 10), Rat(9, 10)}
Scales == {RInt(1), Rat(1, 2)}
NarrowBand ==
    { RRect(RInt(20), RInt(10), Rat(20, 39), Rat(46610039, 390000), a) :
         a \in {RInt(-90), RInt(60), RInt(90)} }
FittedBoxes ==
    { RRect(RInt(20), RInt(10), w, h, a) :
         w \in FittedSides, h \in FittedSides, a \in FittedAngles } \cup NarrowBand

InitBox ==
    /\ box_in \in
         [score : ContourScores, fitted : FittedBoxes,
          scale : Scales, wpad : {0, 5}, hpad : {0}]
    /\ box_out = NoValue
    /\ DecodeIdle /\ AffineIdle /\ WarpIdle /\ EngineIdle /\ OthersIdle

ProcessContour ==
    /\ box_out = NoValue
    /\ box_out' = ContourOutcome(box_in.score, box_in.fitted, box_in.scale,
                                 box_in.wpad, box_in.hpad)
    /\ UNCHANGED <<box_in, decode_vars, affine_vars, warp_vars,
                   engine_vars, detect_vars, other_vars>>

NextBox == ProcessContour

SpecBox == InitBox /\ [][NextBox]_vars

Appended == box_out # NoValue /\ IsObject(box_out)

PaddedWidth == RAdd(box_out.rrect.size.width, Rat(1, 1000000))

InBlob(b, x, y) == b.x <= x /\ x < b.x + b.bw /\ b.y <= y /\ y < b.y + b.bh

\* out.substract_mean_normalize(0, denorm_vals): the network's value * 255
pred_data(map, idx) ==
    LET x == idx % map.w
        y == idx \div map.w
        over == {b \in map.blobs : InBlob(b, x, y)}
    IN  IF over = {} THEN RInt(0)
        ELSE RMul((CHOOSE b \in over : TRUE).p, RInt(255))

\* threshold = 0.3f * 255.f
BinaryThreshold == RMul(Rat(3, 10), RInt(255))

\* pred_data[idx] > threshold
IsForeground(map, idx) == RGt(pred_data(map, idx), BinaryThreshold)

SeqRange(q) == {q[i] : i \in 1 .. Len(q)}

\* Neighbours that include the pixel diagonally below on the right.
NeighboursWithDiagonal(map, curr) ==
    LET cx == curr % map.w
        cy == curr \div map.w
    IN  (IF cx > 0 THEN <<curr - 1>> ELSE <<>>)
        \o (IF cx < map.w - 1 THEN <<curr + 1>> ELSE <<>>)
        \o (IF cy > 0 THEN <<curr - map.w>> ELSE <<>>)
        \o (IF cy < map.h - 1 THEN <<curr + map.w>> ELSE <<>>)
        \o (IF cx < map.w - 1 /\ cy < map.h - 1 THEN <<curr + map.w + 1>> ELSE <<>>)

\* The four neighbours of curr that lie in the surface, in the order the
\* code tests them: left, right, up, down.
Neighbours(map, curr) ==
    LET cx == curr % map.w
        cy == curr \div map.w
    IN  (IF cx > 0 THEN <<curr - 1>> ELSE <<>>)
        \o (IF cx < map.w - 1 THEN <<curr + 1>> ELSE <<>>)
        \o (IF cy > 0 THEN <<curr - map.w>> ELSE <<>>)
        \o (IF cy < map.h - 1 THEN <<curr + map.w>> ELSE <<>>)

\* The while (!q.empty()) loop: pops curr, appends it to the contour and
\* pushes its unvisited foreground neighbours, marking them visited.
RECURSIVE FloodFill(_, _, _, _)
FloodFill(map, q, visited, contour) ==
    IF q = <<>> THEN [contour |-> contour, visited |-> visited]
    ELSE LET curr == Head(q)
             push == SelectSeq(Neighbours(map, curr),
                               LAMBDA n : IsForeground(map, n) /\ n \notin visited)
         IN  FloodFill(map, Tail(q) \o push, visited \cup SeqRange(push),
                       Append(contour, [x |-> curr % map.w, y |-> curr \div map.w]))

\* A list of contours that grows at the front.
KeepContourInFront(contours, contour) == <<contour>> \o contours

\* contours.push_back(contour) at the end of the list
KeepContour(contours, contour) == Append(contours, contour)

\* The scan for (y) for (x) from pixel idx on: the next pixel that passes
\* pred_data[idx] > threshold && !visited[idx] starts a component, which is
\* kept when contour.size() > 5; the pixels before it are passed over.
RECURSIVE ScanFrom(_, _, _, _)
ScanFrom(map, idx, visited, contours) ==
    LET starts == {i \in idx .. map.w * map.h - 1 :
                      IsForeground(map, i) /\ i \notin visited}
        start == CHOOSE i \in starts : \A k \in starts : i <= k
        r == FloodFill(map, <<start>>, visited \cup {start}, <<>>)
    IN  IF starts = {} THEN contours
        ELSE ScanFrom(map, start + 1, r.visited,
                      IF Len(r.contour) > 5 THEN KeepContour(contours, r.contour)
                      ELSE contours)

FindContours(map) == ScanFrom(map, 0, {}, <<>>)

\* The sum of the terms vals[lo], ..., vals[hi] of a sequence (0 for an
\* empty range).  The terms are exact, so the order of the additions does
\* not matter; the range is halved to keep the nesting shallow.
RECURSIVE RSumRange(_, _, _)
RSumRange(vals, lo, hi) ==
    IF lo > hi THEN RInt(0)
    ELSE IF lo = hi THEN vals[lo]
    ELSE LET mid == (lo + hi) \div 2
             left == RSumRange(vals, lo, mid)
             right == RSumRange(vals, mid + 1, hi)
         IN  RAdd(left, right)

RSumFrom(vals, i) == RSumRange(vals, i, Len(vals))

\* The sum of all terms of a sequence
RSum(vals) == RSumFrom(vals, 1)

IntMin(S) == CHOOSE a \in S : \A b \in S : a <= b
IntMax(S) == CHOOSE a \in S : \A b \in S : a >= b
RMinOf(S) == CHOOSE a \in S : \A b \in S : RLe(a, b)
RMaxOf(S) == CHOOSE a \in S : \A b \in S : RGe(a, b)

\* One term of the ray casting test: the edge from contour[j] to contour[i]
\* (j the predecessor of i, the last point for the first) crosses the ray
\* to the right of (x, y).
EdgeCrosses(contour, i, x, y) ==
    LET n == Len(contour)
        pi == contour[i]
        pj == contour[IF i = 1 THEN n ELSE i - 1]
    IN  /\ (pi.y > y) # (pj.y > y)
        /\ RLt(RInt(x),
               RAdd(Rat((pj.x - pi.x) * (y - pi.y), pj.y - pi.y), RInt(pi.x)))

\* `inside` after the loop over the edges: toggled once per crossing edge
InsideContour(contour, x, y) ==
    Cardinality({i \in 1 .. Len(contour) : EdgeCrosses(contour, i, x, y)}) % 2 = 1

\* calculate_contour_score: the mean of the surface over the pixels of the
\* bounding rect that the ray casting test puts inside the contour, 0 when
\* there is none.
calculate_contour_score(map, contour) ==
    LET xs == {contour[i].x : i \in 1 .. Len(contour)}
        ys == {contour[i].y : i \in 1 .. Len(contour)}
        min_x == Max(0, IntMin(xs))
        max_x == Min(map.w - 1, IntMax(xs))
        min_y == Max(0, IntMin(ys))
        max_y == Min(map.h - 1, IntMax(ys))
        scanned == [k \in 1 .. (max_y - min_y + 1) * (max_x - min_x + 1) |->
                      [x |-> min_x + ((k - 1) % (max_x - min_x + 1)),
                       y |-> min_y + ((k - 1) \div (max_x - min_x + 1))]]
        inside == SelectSeq(scanned, LAMBDA q : InsideContour(contour, q.x, q.y))
        sum == RSum([k \in 1 .. Len(inside) |->
                        pred_data(map, inside[k].y * map.w + inside[k].x)])
        count == Len(inside)
    IN  IF count > 0 THEN RDiv(sum, RInt(count)) ELSE RInt(0)

\* cov_xy of get_min_area_rect
ContourCovXY(contour) ==
    LET n == RInt(Len(contour))
        mean_x == RDiv(RSum([i \in 1 .. Len(contour) |-> RInt(contour[i].x)]), n)
        mean_y == RDiv(RSum([i \in 1 .. Len(contour) |-> RInt(contour[i].y)]), n)
    IN  RSum([i \in 1 .. Len(contour) |->
                 RMul(RSub(RInt(contour[i].x), mean_x),
                      RSub(RInt(contour[i].y), mean_y))])

\* std::abs(cov_xy) > 1e-6: the main direction is the eigenvector
\* (lambda1 - cov_yy, cov_xy), whose length is a square root.
Skewed(contour) == RGt(RAbs(ContourCovXY(contour)), Rat(1, 1000000))

\* get_min_area_rect for a contour with |cov_xy| <= 1e-6: the main
\* direction is (1, 0) when cov_xx >= cov_yy and (0, 1) otherwise, and the
\* rect is the extent of the projections on it and on its normal.  The
\* eigenvector branch is not computed: NoValue.
get_min_area_rect(contour) ==
    LET n == RInt(Len(contour))
        mean_x == RDiv(RSum([i \in 1 .. Len(contour) |-> RInt(contour[i].x)]), n)
        mean_y == RDiv(RSum([i \in 1 .. Len(contour) |-> RInt(contour[i].y)]), n)
        dx(q) == RSub(RInt(q.x), mean_x)
        dy(q) == RSub(RInt(q.y), mean_y)
        cov_xx == RSum([i \in 1 .. Len(contour) |-> RMul(dx(contour[i]), dx(contour[i]))])
        cov_yy == RSum([i \in 1 .. Len(contour) |-> RMul(dy(contour[i]), dy(contour[i]))])
        along_x == RGe(cov_xx, cov_yy)
        vx == IF along_x THEN RInt(1) ELSE RInt(0)
        vy == IF along_x THEN RInt(0) ELSE RInt(1)
        us == {RAdd(RMul(dx(contour[i]), vx), RMul(dy(contour[i]), vy)) :
                  i \in 1 .. Len(contour)}
        vs == {RAdd(RMul(dx(contour[i]), RNeg(vy)), RMul(dy(contour[i]), vx)) :
                  i \in 1 .. Len(contour)}
        center_u == RDiv(RAdd(RMinOf(us), RMaxOf(us)), RInt(2))
        center_v == RDiv(RAdd(RMinOf(vs), RMaxOf(vs)), RInt(2))
    IN  IF Skewed(contour) THEN NoValue
        ELSE RRect(RSub(RAdd(mean_x, RMul(center_u, vx)), RMul(center_v, vy)),
                   RAdd(RAdd(mean_y, RMul(center_u, vy)), RMul(center_v, vx)),
                   RSub(RMaxOf(us), RMinOf(us)),
                   RSub(RMaxOf(vs), RMinOf(vs)),
                   IF along_x THEN RInt(0) ELSE RInt(90))

target_size == 960
target_stride == 32

\* detect_text, preprocessing: the resize to at most target_size, and the
\* padding of both sides to a multiple of target_stride.
Preprocess(img_w, img_h) ==
    LET big == Max(img_w, img_h) > target_size
        scale == IF ~big THEN RInt(1)
                 ELSE IF img_w > img_h THEN Rat(target_size, img_w)
                 ELSE Rat(target_size, img_h)
        w == IF ~big THEN img_w
             ELSE IF img_w > img_h THEN target_size
             ELSE RTrunc(RMul(RInt(img_w), scale))
        h == IF ~big THEN img_h
             ELSE IF img_w > img_h THEN RTrunc(RMul(RInt(img_h), scale))
             ELSE target_size
    IN  [scale |-> scale, w |-> w, h |-> h,
         wpad |-> ((w + target_stride - 1) \div target_stride) * target_stride - w,
         hpad |-> ((h + target_stride - 1) \div target_stride) * target_stride - h]

\* detect_text, postprocessing: what the loop over the contours does with
\* each of them, in the order of `contours`.
ContourOutcomes(map, contours, pre) ==
    [i \in 1 .. Len(contours) |->
        ContourOutcome(RDiv(calculate_contour_score(map, contours[i]), RInt(255)),
                       get_min_area_rect(contours[i]),
                       pre.scale, pre.wpad, pre.hpad)]

\* detect_text for an image of img_w x img_h for which the detection
\* network returns `map`: its local `contours` and the Objects appended to
\* `objects`.
detect_text(map, img_w, img_h) ==
    LET found == FindContours(map)
    IN  [contours |-> found,
         objects |-> SelectSeq(ContourOutcomes(map, found, Preprocess(img_w, img_h)),
                               IsObject)]

(***************************************************************************)
(* OCREngine::detect and OCREngine::set_text_score_threshold.              *)
(***************************************************************************)
\* cos and sin of an angle in degrees that is a multiple of 90
CosDeg(a) ==
    CASE a = RInt(0) -> RInt(1) [] a = RInt(180) -> RInt(-1) [] OTHER -> RInt(0)
SinDeg(a) ==
    CASE a = RInt(90) -> RInt(1) [] a = RInt(-90) -> RInt(-1) [] OTHER -> RInt(0)

\* RotatedRect::points: the corners (-hw,-hh), (hw,-hh), (hw,hh), (-hw,hh)
\* rotated by the angle and moved to the centre.
points(rr) ==
    LET hw == RDiv(rr.size.width, RInt(2))
        hh == RDiv(rr.size.height, RInt(2))
        cx_rel == <<RNeg(hw), hw, hw, RNeg(hw)>>
        cy_rel == <<RNeg(hh), RNeg(hh), hh, hh>>
        cos_a == CosDeg(rr.angle)
        sin_a == SinDeg(rr.angle)
    IN  [i \in 1 .. 4 |->
            Pt(RAdd(rr.center.x,
                    RSub(RMul(cx_rel[i], cos_a), RMul(cy_rel[i], sin_a))),
               RAdd(rr.center.y,
                    RAdd(RMul(cx_rel[i], sin_a), RMul(cy_rel[i], cos_a))))]

\* The dictionary has character_dict_size entries; entry id is written as
\* the glyph id itself.
character_dict_size == 2

\* text_str: the dictionary entries of the glyphs with id < character_dict_size
TextString(glyphs) ==
    LET known == SelectSeq(glyphs, LAMBDA ch : ch.id < character_dict_size)
    IN  [i \in 1 .. Len(known) |-> known[i].id]

\* A recognition pass that leaves the detection score in place.
RecognizeKeepingScore(object, out) ==
    [object EXCEPT !.text = CTCDecode(out, object.text)]

\* One pass of the recognition loop: recognize_text fills object.text from
\* the score matrix `out`, then prob becomes the mean glyph prob if count > 0.
RecognizeObject(object, out) ==
    LET glyphs == CTCDecode(out, object.text)
        sum_prob == RSumFrom([i \in 1 .. Len(glyphs) |-> glyphs[i].prob], 1)
        count == Len(glyphs)
    IN  [object EXCEPT !.text = glyphs,
                       !.prob = IF count > 0 THEN RDiv(sum_prob, RInt(count)) ELSE @]

\* for (i = 0; i < objects.size(); i++) ...
RecognitionLoop(objs, outs) ==
    [i \in 1 .. Len(objs) |-> RecognizeObject(objs[i], outs[i])]

\* A filter that also drops a region whose confidence equals the threshold.
AtOrBelowThreshold(obj, threshold) == RLe(obj.prob, threshold)

\* if (obj.prob < m_text_score_threshold) continue;
BelowThreshold(obj, threshold) == RLt(obj.prob, threshold)

JsonItem(obj) ==
    [box |-> points(obj.rrect), text |-> TextString(obj.text), prob |-> obj.prob]

\* The JSON build: "[" item,item... "]" over the objects in order
BuildJson(objs, threshold) ==
    LET kept == SelectSeq(objs, LAMBDA obj : ~BelowThreshold(obj, threshold))
    IN  [json |-> "array", items |-> [i \in 1 .. Len(kept) |-> JsonItem(kept[i])]]

\* return "{}";
EmptyJsonObject == [json |-> "object", members |-> <<>>]

\* width <= 0 || height <= 0 || !rgba_data
InvalidInput(args) == args.width <= 0 \/ args.height <= 0 \/ ~args.rgba_data

(***************************************************************************)
(* Inputs of the engine.  An image is known by its size and by what the    *)
(* two networks return for it; the detection surface has the padded size.  *)
(***************************************************************************)
MaxBlobs == 3      \* rectangles of an enumerated probability surface

Blob(x, y, bw, bh, p) == [x |-> x, y |-> y, bw |-> bw, bh |-> bh, p |-> p]

\* A 4 x 2 block (at three probabilities), a 2 x 5 block further left but
\* lower, a 5 x 2 block on the same rows, a 3 x 2 block (too small a box),
\* a 6 x 1 line (no pixel inside its contour) and a 2 x 2 block (noise).
BlobChoices ==
    { Blob(10, 4, 4, 2, Rat(9, 10)), Blob(10, 4, 4, 2, Rat(7, 10)),
      Blob(10, 4, 4, 2, Rat(1, 2)),
      Blob(0, 5, 2, 5, Rat(9, 10)),
      Blob(20, 4, 5, 2, Rat(7, 10)),
      Blob(5, 20, 3, 2, Rat(9, 10)),
      Blob(15, 20, 6, 1, Rat(9, 10)),
      Blob(25, 25, 2, 2, Rat(9, 10)) }

Apart(B) == \A a, b \in B : a # b => <<a.x, a.y>> # <<b.x, b.y>>

Surfaces ==
    { [w |-> 32, h |-> 32, blobs |-> B] :
         B \in {S \in SUBSET BlobChoices : Cardinality(S) <= MaxBlobs /\ Apart(S)} }

\* A row of the recognition network's output with score s at class c
ScoreRow(c, s) == [j \in 1 .. 3 |-> IF j - 1 = c THEN s ELSE Rat(1, 10)]

\* Nothing but blanks; one glyph of 0.9; glyphs of 0.9, 0.8, 0.7; one of 0.4
RecOutputs ==
    { <<ScoreRow(0, Rat(9, 10)), ScoreRow(0, Rat(9, 10))>>,
      <<ScoreRow(0, Rat(9, 10)), ScoreRow(1, Rat(9, 10))>>,
      <<ScoreRow(1, Rat(9, 10)), ScoreRow(2, Rat(8, 10)), ScoreRow(1, Rat(7, 10))>>,
      <<ScoreRow(2, Rat(4, 10)), ScoreRow(2, Rat(3, 10))>> }

Thresholds == {RInt(0), Rat(4, 5), Rat(9, 10)}

DetectArgs == [width : {-1, 0, 30, 32}, height : {0, 32}, rgba_data : BOOLEAN]

InitEngine ==
    /\ DecodeIdle /\ AffineIdle /\ WarpIdle /\ BoxIdle /\ EngineIdle /\ OthersIdle

\* void OCREngine::set_text_score_threshold(float threshold)
SetTextScoreThreshold ==
    /\ call = NoValue
    /\ \E threshold \in Thresholds :
          /\ m_text_score_threshold' = threshold
          /\ last_set' = threshold
    /\ UNCHANGED <<decode_vars, affine_vars, warp_vars, box_vars, detect_vars, other_vars>>

\* std::string OCREngine::detect(rgba_data, width, height), from the call to
\* the return statement.
Detect ==
    /\ call = NoValue
    /\ \E args \in DetectArgs :
          /\ call' = args
          /\ IF InvalidInput(args)
             THEN /\ result' = EmptyJsonObject
                  /\ UNCHANGED <<det_map, rec_outs, det_contours, detected, objects,
                                 net_calls>>
             ELSE \E map \in Surfaces :
                     LET pre == Preprocess(args.width, args.height)
                     IN  /\ map.w = pre.w + pre.wpad
                         /\ map.h = pre.h + pre.hpad
                         /\ \E det \in {detect_text(map, args.width, args.height)} :
                            \E objs \in {det.objects} :
                            \E outs \in [1 .. Len(objs) -> RecOutputs] :
                            \E recognized \in {RecognitionLoop(objs, outs)} :
                               /\ det_map' = map
                               /\ rec_outs' = outs
                               /\ det_contours' = det.contours
                               /\ detected' = objs
                               /\ objects' = recognized
                               /\ result' = BuildJson(recognized, m_text_score_threshold)
                               /\ net_calls' = [det |-> 1, rec |-> Len(objs)]
    /\ UNCHANGED <<decode_vars, affine_vars, warp_vars, box_vars, engine_vars, other_vars>>

\* The caller has taken the string; the locals of the call are gone.
Return ==
    /\ call # NoValue
    /\ call' = NoValue /\ det_map' = NoValue /\ rec_outs' = <<>>
    /\ det_contours' = <<>> /\ detected' = <<>> /\ objects' = <<>> /\ result' = NoValue
    /\ net_calls' = [det |-> 0, rec |-> 0]
    /\ UNCHANGED <<decode_vars, affine_vars, warp_vars, box_vars, engine_vars, other_vars>>

NextEngine == SetTextScoreThreshold \/ Detect \/ Return

SpecEngine == InitEngine /\ [][NextEngine]_vars

(***************************************************************************)
(* Properties of detect.                                                   *)
(***************************************************************************)
\* A call with a well-formed image is being served.
ServingImage == call # NoValue /\ ~InvalidInput(call)

\* The threshold in force: the latest value set, 0.5 if none was.
ThresholdInForce == IF last_set = NoValue THEN Rat(1, 2) ELSE last_set

\* The positions of the serialized items that show the box of region i
ItemsOf(i) ==
    {k \in 1 .. Len(result.items) : result.items[k].box = points(objects[i].rrect)}

GlyphProbs(obj) == [k \in 1 .. Len(obj.text) |-> obj.text[k].prob]

\* C3: after the recognition loop every region has the glyphs decoded from
\* its score matrix; with at least one glyph its confidence times the number
\* of glyphs is the sum of the glyph confidences (the mean), with none it
\* keeps the detection score and is serialized when that score is not below
\* the threshold.
C3_ConfidenceOverwrite ==
    ServingImage =>
        /\ Len(objects) = Len(detected)
        /\ \A i \in 1 .. Len(objects) :
              /\ objects[i].text = CTCDecode(rec_outs[i], <<>>)
              /\ objects[i].text # <<>> =>
                    RMul(objects[i].prob, RInt(Len(objects[i].text)))
                        = RSumFrom(GlyphProbs(objects[i]), 1)
              /\ objects[i].text = <<>> =>
                    /\ objects[i].prob = detected[i].prob
                    /\ RGe(detected[i].prob, m_text_score_threshold)
                          => ItemsOf(i) # {}

\* C3 witness: a region detected with score 0.7 whose glyphs have
\* confidences 0.9, 0.8, 0.7 reports 0.8, and a region without glyphs is
\* serialized with its detection score 0.9.
C3_Witness ==
    /\ ServingImage
    /\ \E i, j \in 1 .. Len(objects) :
          /\ detected[i].prob = Rat(7, 10)
          /\ GlyphProbs(objects[i]) = <<Rat(9, 10), Rat(8, 10), Rat(7, 10)>>
          /\ objects[i].prob = Rat(8, 10)
          /\ objects[j].text = <<>>
          /\ objects[j].prob = Rat(9, 10)
          /\ \E k \in ItemsOf(j) : result.items[k].prob = Rat(9, 10)

\* C4: the output holds a region exactly when its final confidence is not
\* below the threshold in force (the latest value set, else 0.5), once each;
\* it holds nothing else.
C4_AcceptanceThreshold ==
    ServingImage =>
        /\ result.json = "array"
        /\ \A i \in 1 .. Len(objects) :
              IF RLt(objects[i].prob, ThresholdInForce)
              THEN ItemsOf(i) = {}
              ELSE /\ Cardinality(ItemsOf(i)) = 1
                   /\ \A k \in ItemsOf(i) : result.items[k].prob = objects[i].prob
        /\ \A k \in 1 .. Len(result.items) :
              \E i \in 1 .. Len(objects) : k \in ItemsOf(i)

\* C4 witness: with the threshold set to 0.8, a region whose final confidence
\* is 0.8 (detected at 0.7) is in the output, and a region detected at 0.9
\* whose final confidence is 0.4 is not.
C4_Witness ==
    /\ ServingImage
    /\ last_set = Rat(4, 5)
    /\ \E i, j \in 1 .. Len(objects) :
          /\ detected[i].prob = Rat(7, 10) /\ objects[i].prob = Rat(4, 5)
          /\ ItemsOf(i) # {}
          /\ detected[j].prob = Rat(9, 10) /\ objects[j].prob = Rat(4, 10)
          /\ ItemsOf(j) = {}

\* The strictly increasing maps from 1 .. m into 1 .. n
Increasing(m, n) ==
    {f \in [1 .. m -> 1 .. n] : \A a, b \in 1 .. m : a < b => f[a] < f[b]}

\* The row-major position of a pixel of the surface of this call
RowMajor(q) == q.y * det_map.w + q.x

\* C5: the contours are listed in the row-major order of the pixel at which
\* each was discovered (its first point, which is its first pixel in
\* row-major order); the regions of detect_text are the boxes of a
\* subsequence of the contours, the recognition loop keeps their order, and
\* the serialized items are the boxes of a subsequence of the regions.
C5_DiscoveryOrder ==
    ServingImage =>
        LET boxes == ContourOutcomes(det_map, det_contours,
                                     Preprocess(call.width, call.height))
        IN  /\ \A i \in 1 .. Len(det_contours) :
                  \A k \in 1 .. Len(det_contours[i]) :
                      RowMajor(det_contours[i][1]) <= RowMajor(det_contours[i][k])
            /\ \A i, j \in 1 .. Len(det_contours) :
                  i < j => RowMajor(det_contours[i][1]) < RowMajor(det_contours[j][1])
            /\ \E f \in Increasing(Len(detected), Len(det_contours)) :
                  \A k \in 1 .. Len(detected) :
                      /\ IsObject(boxes[f[k]])
                      /\ detected[k].rrect = boxes[f[k]].rrect
            /\ Len(objects) = Len(detected)
            /\ \A k \in 1 .. Len(objects) : objects[k].rrect = detected[k].rrect
            /\ \E g \in Increasing(Len(result.items), Len(objects)) :
                  \A k \in 1 .. Len(result.items) :
                      result.items[k].box = points(objects[g[k]].rrect)

\* C5 witness: three regions were found, the first further right than the
\* third, the second fell below the threshold, and the output holds the
\* first and then the third.
C5_Witness ==
    /\ ServingImage
    /\ Len(objects) = 3
    /\ RGt(objects[1].rrect.center.x, objects[3].rrect.center.x)
    /\ Len(result.items) = 2
    /\ result.items[1].box = points(objects[1].rrect)
    /\ result.items[2].box = points(objects[3].rrect)

\* The result of a call in which no region survives: "[]"
EmptyRegionList == [json |-> "array", items |-> <<>>]

\* C7 as claimed: a call with width <= 0, height <= 0 or a null buffer runs
\* neither network and returns what a well-formed image without surviving
\* regions returns, an empty list of regions.
C7_AsClaimed ==
    (call # NoValue /\ InvalidInput(call)) =>
        /\ net_calls = [det |-> 0, rec |-> 0]
        /\ result = EmptyRegionList


(***************************************************************************)
(* SpecExtract: detect_text's post-processing (threshold, component scan,  *)
(* scoring, box fitting and filtering) applied to one probability surface. *)
(***************************************************************************)
MaxBlockSide == 6

\* A surface of 100 x 30 with one k x k block of 0.9 in its middle
CentredSquare(k) ==
    [w |-> 100, h |-> 30,
     blobs |-> {Blob((100 - k) \div 2, (30 - k) \div 2, k, k, Rat(9, 10))}]

\* Blocks of a 12 x 8 surface: 3 x 2 blocks that touch by a corner or share
\* an edge, lines and small blocks under the size limit, values at the
\* binary threshold and just above it, and blocks of lower scores.
PatchBlobs ==
    { Blob(1, 1, 3, 2, Rat(9, 10)), Blob(4, 3, 3, 2, Rat(9, 10)),
      Blob(4, 1, 3, 2, Rat(9, 10)), Blob(1, 5, 5, 1, Rat(9, 10)),
      Blob(7, 5, 4, 2, Rat(7, 10)), Blob(8, 1, 2, 2, Rat(31, 100)),
      Blob(8, 0, 4, 3, Rat(3, 10)), Blob(0, 6, 6, 2, Rat(1, 2)),
      Blob(7, 3, 5, 5, Rat(3, 5)), Blob(1, 3, 3, 4, Rat(31, 100)) }

Disjoint(B) ==
    \A a, b \in B :
        a # b => \/ a.x + a.bw <= b.x \/ b.x + b.bw <= a.x
                 \/ a.y + a.bh <= b.y \/ b.y + b.bh <= a.y

\* The surfaces whose components all fall in the exact branch of
\* get_min_area_rect
PatchSurfaces ==
    { map \in { [w |-> 12, h |-> 8, blobs |-> B] :
                   B \in {S \in SUBSET PatchBlobs :
                             Cardinality(S) <= 2 /\ Disjoint(S)} } :
         LET found == FindContours(map)
         IN  \A i \in 1 .. Len(found) : ~Skewed(found[i]) }

ExtractSurfaces == {CentredSquare(k) : k \in 1 .. MaxBlockSide} \cup PatchSurfaces

\* scale and padding as detect_text computes them for images of 100 x 30
\* or 12 x 8 (no resize), 200 x 60 or 24 x 16 (halved), and with no padding
ExtractSettings(map) ==
    { [scale |-> RInt(1), wpad |-> 0, hpad |-> 0],
      [scale |-> RInt(1),
       wpad |-> Preprocess(map.w, map.h).wpad,
       hpad |-> Preprocess(map.w, map.h).hpad],
      [scale |-> Rat(1, 2), wpad |-> 0, hpad |-> 0] }

InitExtract ==
    /\ \E map \in ExtractSurfaces :
       \E pre \in ExtractSettings(map) :
          ext_in = [map |-> map, pre |-> pre]
    /\ ext_out = NoValue
    /\ CoreIdle /\ ScanIdle /\ CropIdle /\ OcrIdle /\ PluginIdle /\ JsonIdle /\ QueueIdle /\ StoreIdle

\* detect_text from the denormalisation of the surface to the end of the
\* loop over the contours
ExtractRegions ==
    /\ ext_out = NoValue
    /\ \E found \in {FindContours(ext_in.map)} :
          ext_out' = [contours |-> found,
                      outcomes |-> ContourOutcomes(ext_in.map, found, ext_in.pre)]
    /\ UNCHANGED <<ext_in, core_vars, scan_vars, crop_vars, ocr_vars, plugin_vars, json_vars, queue_vars,
                   store_vars>>

NextExtract == ExtractRegions

SpecExtract == InitExtract /\ [][NextExtract]_vars

\* The TextRegions detect_text appends to `objects`
RegionsOut == SelectSeq(ext_out.outcomes, IsObject)

\* The side of the centred square block of the surface, 0 for other surfaces
BlockSide ==
    IF \E k \in 1 .. MaxBlockSide : ext_in.map = CentredSquare(k)
    THEN (CHOOSE k \in 1 .. MaxBlockSide : ext_in.map = CentredSquare(k))
    ELSE 0

OneHorizontalRegion ==
    /\ Len(RegionsOut) = 1
    /\ RegionsOut[1].orientation = 0
    /\ RegionsOut[1].prob = Rat(9, 10)

\* C11 as the spec states it: on a 100 x 30 surface whose only foreground
\* is a centred square block of at least 6 pixels, all of 0.9, the Region
\* Extractor returns exactly one region, Horizontal, of confidence 0.9.
C11_AsClaimed ==
    (ext_out # NoValue /\ BlockSide * BlockSide >= 6) => OneHorizontalRegion

\* C11, amended: the block gives exactly one Horizontal region of
\* confidence 0.9 when it has at least 6 pixels and the side of its fitted
\* box, k - 1, is at least 3 * scale (k >= 4 without resizing), and no
\* region otherwise: a 3 x 3 block passes the 6-pixel limit, but at scale 1
\* its 2 x 2 box is dropped by the minimum-size test.
C11_EndToEndBlob ==
    (ext_out # NoValue /\ BlockSide >= 1) =>
        IF /\ BlockSide * BlockSide >= 6
           /\ RGe(RInt(BlockSide - 1), RMul(RInt(3), ext_in.pre.scale))
        THEN OneHorizontalRegion
        ELSE Len(RegionsOut) = 0

C11_Witness ==
    /\ ext_out # NoValue /\ BlockSide = 4 /\ ext_in.pre.scale = RInt(1)
    /\ Len(ext_out.contours) = 1 /\ Len(ext_out.contours[1]) = 16
    /\ OneHorizontalRegion
    /\ RegionsOut[1].rrect.size.width = Rat(117, 20)

(***************************************************************************)
(* SpecJson: the "text" member written by detect and read back by the      *)
(* worker's JSON.parse.  A string is a sequence of code points; the        *)
(* dictionary is an input of the engine.                                   *)
(***************************************************************************)
Quote == 34
Backslash == 92
Newline == 10
CarriageReturn == 13
Tab == 9
Backspace == 8
UnitSeparator == 31
LetterA == 97
LetterN == 110

MaxTextLen == 3

\* Dictionaries: letters only; the characters detect escapes; and one that
\* also holds the control characters U+0008 and U+001F and a two-character
\* entry.
Dictionaries ==
    { <<(<<LetterA>>), (<<LetterN>>)>>,
      <<(<<LetterA>>), (<<LetterN>>), (<<Quote>>), (<<Backslash>>), (<<Newline>>),
        (<<CarriageReturn>>), (<<Tab>>)>>,
      <<(<<LetterA>>), (<<Quote>>), (<<Backslash>>), (<<Newline>>),
        (<<Backspace>>), (<<UnitSeparator>>), (<<Backslash, LetterN>>)>> }

\* text_str: the entries of the ids below character_dict_size, concatenated
RECURSIVE AssembleFrom(_, _, _)
AssembleFrom(ids, dict, i) ==
    IF i > Len(ids) THEN <<>>
    ELSE (IF ids[i] < Len(dict) THEN dict[ids[i] + 1] ELSE <<>>)
         \o AssembleFrom(ids, dict, i + 1)

AssembleText(ids, dict) == AssembleFrom(ids, dict, 1)

\* What the escaping loop writes for one char of text_str
EscapeChar(c) ==
    IF c = Quote THEN <<Backslash, Quote>>
    ELSE IF c = Backslash THEN <<Backslash, Backslash>>
    ELSE IF c = Newline THEN <<Backslash, LetterN>>
    ELSE IF c = CarriageReturn THEN <<Backslash, 114>>
    ELSE IF c = Tab THEN <<Backslash, 116>>
    ELSE <<c>>

RECURSIVE EscapeFrom(_, _)
EscapeFrom(text_str, i) ==
    IF i > Len(text_str) THEN <<>>
    ELSE EscapeChar(text_str[i]) \o EscapeFrom(text_str, i + 1)

EscapeText(text_str) == EscapeFrom(text_str, 1)

SyntaxError == [error |-> "SyntaxError"]

\* The character a JSON escape \c stands for, or -1 (\u is not written
\* by detect and not decoded here)
Unescape(c) ==
    CASE c = Quote -> Quote
      [] c = Backslash -> Backslash
      [] c = 47 -> 47
      [] c = 98 -> Backspace
      [] c = 102 -> 12
      [] c = LetterN -> Newline
      [] c = 114 -> CarriageReturn
      [] c = 116 -> Tab
      [] OTHER -> -1

\* JSON.parse on a string literal whose characters between the opening and
\* the closing quote are lit[i..]: the string it denotes, with `acc` read so
\* far, or SyntaxError for an unescaped quote (the literal ends early and
\* the rest is no JSON), an unescaped control character or a bad escape.
RECURSIVE ParseFrom(_, _, _)
ParseFrom(lit, i, acc) ==
    IF i > Len(lit) THEN [string |-> acc]
    ELSE IF lit[i] = Quote \/ lit[i] < 32 THEN SyntaxError
    ELSE IF lit[i] = Backslash
    THEN IF i = Len(lit) \/ Unescape(lit[i + 1]) = -1 THEN SyntaxError
         ELSE ParseFrom(lit, i + 2, Append(acc, Unescape(lit[i + 1])))
    ELSE ParseFrom(lit, i + 1, Append(acc, lit[i]))

JsonParseString(lit) == ParseFrom(lit, 1, <<>>)

RECURSIVE SeqsUpTo(_, _)
SeqsUpTo(S, n) ==
    IF n = 0 THEN {<<>>}
    ELSE LET shorter == SeqsUpTo(S, n - 1)
         IN  shorter \cup {Append(q, x) : q \in shorter, x \in S}

InitJson ==
    /\ json_dict \in Dictionaries
    /\ json_ids \in SeqsUpTo(0 .. Len(json_dict) + 1, MaxTextLen)
    /\ json_out = NoValue
    /\ json_parsed = NoValue
    /\ CoreIdle /\ ExtractIdle /\ ScanIdle /\ CropIdle /\ OcrIdle /\ PluginIdle /\ QueueIdle /\ StoreIdle

\* detect: ss << "\"text\":\"" ... ss << "\","
WriteText ==
    /\ json_out = NoValue
    /\ json_out' = [chars |-> EscapeText(AssembleText(json_ids, json_dict))]
    /\ UNCHANGED <<json_dict, json_ids, json_parsed, core_vars, extract_vars,
                   scan_vars, crop_vars, ocr_vars, plugin_vars, queue_vars, store_vars>>

\* worker: const results = JSON.parse(jsonStr)
ParseText ==
    /\ json_out # NoValue /\ json_parsed = NoValue
    /\ json_parsed' = JsonParseString(json_out.chars)
    /\ UNCHANGED <<json_dict, json_ids, json_out, core_vars, extract_vars,
                   scan_vars, crop_vars, ocr_vars, plugin_vars, queue_vars, store_vars>>

NextJson == WriteText \/ ParseText

SpecJson == InitJson /\ [][NextJson]_vars

\* C12: whatever text is assembled from the dictionary, JSON.parse recovers
\* exactly that text from what detect wrote (ids outside the dictionary
\* having contributed nothing).
C12_AsClaimed ==
    json_parsed # NoValue =>
        json_parsed = [string |-> AssembleText(json_ids, json_dict)]

(***************************************************************************)
(* SpecQueue: OcrPlugin.processQueue and the store subscription that       *)
(* starts it.  A call runs from one await to the next without              *)
(* interruption; the loads, the decoding and the worker's reply are one    *)
(* wait that ends in a result or in an exception.                          *)
(***************************************************************************)
MaxItems == 4

\* state.items.some((i) => i.status === 'pending')
HasPending(list) == \E k \in 1 .. Len(list) : list[k] = "pending"

\* A catch block that leaves the item as it is.
StatusAfterSwallowed(outcome) == IF outcome = "ok" THEN "success" ELSE "analyzing"

\* The status written after the try block: 'success' with the results, or
\* 'error' in the catch block
StatusAfter(outcome) == IF outcome = "ok" THEN "success" ELSE "error"

\* processQueue from index i of its loop up to its next await or its
\* return, on st = [items, procs].  A pending item becomes 'analyzing';
\* updateItem notifies the subscription, which starts a further call when
\* an item is still pending, and that call runs up to its own await before
\* updateItem returns.  Then this call waits for item i: it joins `procs`,
\* the indices that calls are waiting for.
RECURSIVE RunLoop(_, _)
RunLoop(st, i) ==
    IF i >= Len(st.items) THEN st
    ELSE IF st.items[i + 1] = "pending"
    THEN LET taken == [st.items EXCEPT ![i + 1] = "analyzing"]
             updated == [items |-> taken, procs |-> st.procs]
             notified == IF HasPending(taken) /\ q_engine
                         THEN RunLoop(updated, 0)
                         ELSE updated
         IN  [notified EXCEPT !.procs = Append(@, i)]
    ELSE RunLoop(st, i + 1)

\* async processQueue(): if (!this.ocrEngine) return; then the loop
processQueue(st) == IF ~q_engine THEN st ELSE RunLoop(st, 0)

\* useAnalysisStore.subscribe((state, prevState) => ...), after a change of
\* `items`
Subscription(st) == IF HasPending(st.items) THEN processQueue(st) ELSE st

RemoveAt(q, p) == [k \in 1 .. Len(q) - 1 |-> IF k < p THEN q[k] ELSE q[k + 1]]

\* After onload: the engine object exists, the store is empty.
InitQueue ==
    /\ q_engine = TRUE
    /\ q_items = <<>>
    /\ q_procs = <<>>
    /\ CoreIdle /\ ExtractIdle /\ ScanIdle /\ CropIdle /\ OcrIdle /\ PluginIdle /\ JsonIdle /\ StoreIdle

\* store.setItems(items) with n pending items; the subscription starts a
\* call, and the plugin's commands start one more themselves
\* (await this.processQueue()), the clipboard paste does not.
SetItems ==
    /\ q_items = <<>>
    /\ \E n \in 1 .. MaxItems, direct \in BOOLEAN :
          LET stored == [items |-> [k \in 1 .. n |-> "pending"], procs |-> q_procs]
              notified == Subscription(stored)
              after == IF direct THEN processQueue(notified) ELSE notified
          IN  /\ q_items' = after.items
              /\ q_procs' = after.procs
    /\ UNCHANGED <<q_engine, core_vars, extract_vars, scan_vars, crop_vars, ocr_vars, plugin_vars,
                   json_vars, store_vars>>

\* The load, decode and detect that call p waits for have ended, with
\* results or with an exception: the item gets its final status, the
\* subscription is notified, and the call goes on with its loop.
Complete(p) ==
    /\ p \in 1 .. Len(q_procs)
    /\ \E outcome \in {"ok", "exception"} :
          LET i == q_procs[p]
              settled == [q_items EXCEPT ![i + 1] = StatusAfter(outcome)]
              notified == Subscription([items |-> settled,
                                        procs |-> RemoveAt(q_procs, p)])
              after == RunLoop(notified, i + 1)
          IN  /\ q_items' = after.items
              /\ q_procs' = after.procs
    /\ UNCHANGED <<q_engine, core_vars, extract_vars, scan_vars, crop_vars, ocr_vars, plugin_vars,
                   json_vars, store_vars>>

NextQueue == SetItems \/ \E p \in 1 .. MaxItems : Complete(p)

SpecQueue == InitQueue /\ [][NextQueue]_vars

\* Every load, decode and worker reply ends, and the event loop then
\* resumes the call that waits for it.
QueueFairness == \A p \in 1 .. MaxItems : WF_vars(Complete(p))

SpecQueueFair == SpecQueue /\ QueueFairness

AllSettled ==
    /\ q_items # <<>>
    /\ \A k \in 1 .. Len(q_items) : q_items[k] \in {"success", "error"}

\* C13: once setItems has stored its pending items, every item eventually
\* has status 'success' or 'error', whatever fails on the way.
C13_BatchCompletes == (q_items # <<>>) ~> AllSettled

\* C13 witness: three items are settled, the first by an exception, the
\* others with results, and no call of processQueue is left.
C13_Witness ==
    /\ q_items = <<"error", "success", "success">>
    /\ q_procs = <<>>

\* While items wait for their results no item is pending: every pending
\* item was taken by a call before the first await.
QueueTaken ==
    /\ ~HasPending(q_items)
    /\ \A k \in 1 .. Len(q_items) :
          q_items[k] = "analyzing" <=> \E p \in 1 .. Len(q_procs) : q_procs[p] = k - 1

(***************************************************************************)
(* SpecStore: the actions of useAnalysisStore (models/store.ts).           *)
(***************************************************************************)
MaxStoreItems == 2
CacheLimit == 5

Item(id, status) == [id |-> id, status |-> status]

\* The lists handed to setItems: n new items, all pending
PendingItems(n) == [k \in 1 .. n |-> Item(k, "pending")]

SourceIds == {[path |-> "a.md"]}
Selections == {<<>>, <<0>>}
\* The boxes of the current image that toggleSelection is called with
BoxIndices == {0, 1}
Ranges == {[start |-> 0, end |-> 1]}

\* The call is noted with its (first) argument, 0 when it has none
Called(op, arg) ==
    store_call' = [op |-> op, arg |-> arg,
                   nth |-> IF store_call = NoValue THEN 0 ELSE 1 - store_call.nth]

External ==
    <<core_vars, extract_vars, scan_vars, crop_vars, ocr_vars, plugin_vars, json_vars, queue_vars>>

InitStore ==
    /\ StoreIdle /\ CoreIdle /\ ExtractIdle /\ ScanIdle /\ CropIdle
    /\ OcrIdle /\ PluginIdle
    /\ JsonIdle /\ QueueIdle

\* setItems: (items) => set({items, currentIndex: 0, selectedIndices: [],
\* activeRange: null})
setItems ==
    /\ \E n \in 0 .. MaxStoreItems : items' = PendingItems(n) /\ Called("setItems", n)
    /\ currentIndex' = 0
    /\ selectedIndices' = <<>>
    /\ activeRange' = NoValue
    /\ UNCHANGED <<resultsCache, sourceId, mergeLines, External>>

\* A setCurrentIndex that only rejects negative indices.
setCurrentIndexUnbounded ==
    /\ \E index \in -1 .. MaxStoreItems :
          /\ IF index >= 0
             THEN /\ currentIndex' = index
                  /\ selectedIndices' = <<>>
                  /\ activeRange' = NoValue
             ELSE UNCHANGED <<currentIndex, selectedIndices, activeRange>>
          /\ Called("setCurrentIndex", index)
    /\ UNCHANGED <<items, resultsCache, sourceId, mergeLines, External>>

\* setCurrentIndex: if (index >= 0 && index < items.length) set({...})
setCurrentIndex ==
    /\ \E index \in -1 .. MaxStoreItems :
          /\ IF index >= 0 /\ index < Len(items)
             THEN /\ currentIndex' = index
                  /\ selectedIndices' = <<>>
                  /\ activeRange' = NoValue
             ELSE UNCHANGED <<currentIndex, selectedIndices, activeRange>>
          /\ Called("setCurrentIndex", index)
    /\ UNCHANGED <<items, resultsCache, sourceId, mergeLines, External>>

\* updateItem: items.map(item => item.id === id ? {...item, ...updates} : item)
updateItem ==
    /\ \E id \in 1 .. MaxStoreItems + 1, status \in {"success"} :
          /\ items' = [k \in 1 .. Len(items) |->
                          IF items[k].id = id THEN Item(id, status) ELSE items[k]]
          /\ Called("updateItem", id)
    /\ UNCHANGED <<currentIndex, selectedIndices, activeRange, resultsCache,
                   sourceId, mergeLines, External>>

\* toggleSelection: without multi the selection becomes [index]; with multi
\* the index is removed when selected and appended otherwise; the range is
\* cleared
toggleSelection ==
    /\ \E index \in BoxIndices, multi \in BOOLEAN :
          /\ selectedIndices' =
                IF ~multi THEN <<index>>
                ELSE IF index \in SeqRange(selectedIndices)
                THEN SelectSeq(selectedIndices, LAMBDA i : i # index)
                ELSE Append(selectedIndices, index)
          /\ Called("toggleSelection", index)
    /\ activeRange' = NoValue
    /\ UNCHANGED <<items, currentIndex, resultsCache, sourceId, mergeLines, External>>

\* clearSelection: () => set({selectedIndices: [], activeRange: null})
clearSelection ==
    /\ selectedIndices' = <<>>
    /\ activeRange' = NoValue
    /\ Called("clearSelection", 0)
    /\ UNCHANGED <<items, currentIndex, resultsCache, sourceId, mergeLines, External>>

\* setMergeLines: (merge) => set({mergeLines: merge})
setMergeLines ==
    /\ \E merge \in BOOLEAN : mergeLines' = merge /\ Called("setMergeLines", 0)
    /\ UNCHANGED <<items, currentIndex, selectedIndices, activeRange,
                   resultsCache, sourceId, External>>

\* setSelection: (indices) => set({selectedIndices: indices, activeRange: null})
setSelection ==
    /\ \E indices \in Selections : selectedIndices' = indices
    /\ activeRange' = NoValue
    /\ Called("setSelection", 0)
    /\ UNCHANGED <<items, currentIndex, resultsCache, sourceId, mergeLines, External>>

\* A setActiveRange that leaves the box selection alone.
setActiveRangeOnly ==
    /\ \E range \in Ranges \cup {NoValue} : activeRange' = range
    /\ Called("setActiveRange", 0)
    /\ UNCHANGED <<items, currentIndex, selectedIndices, resultsCache, sourceId,
                   mergeLines, External>>

\* setActiveRange: (range) => set({activeRange: range, selectedIndices: []})
setActiveRange ==
    /\ \E range \in Ranges \cup {NoValue} : activeRange' = range
    /\ selectedIndices' = <<>>
    /\ Called("setActiveRange", 0)
    /\ UNCHANGED <<items, currentIndex, resultsCache, sourceId, mergeLines, External>>

\* The entries of the Map without the one of key
Without(cache, key) == SelectSeq(cache, LAMBDA e : e.key # key)

HasKey(cache, key) == \E k \in 1 .. Len(cache) : cache[k].key = key

\* saveToCache, called by processQueue with the store's sourceId and items:
\* the entry moves to the end of the Map, and the first entry is dropped
\* when there are more than 5
saveToCache ==
    /\ sourceId # NoValue
    /\ LET newCache == Append(Without(resultsCache, sourceId),
                              [key |-> sourceId, items |-> items])
       IN  resultsCache' = IF Len(newCache) > CacheLimit THEN Tail(newCache)
                           ELSE newCache
    /\ Called("saveToCache", 0)
    /\ UNCHANGED <<items, currentIndex, selectedIndices, activeRange,
                   sourceId, mergeLines, External>>

\* setSourceId: (id) => set({sourceId: id})
setSourceId ==
    /\ \E id \in SourceIds \cup {NoValue} : sourceId' = id
    /\ Called("setSourceId", 0)
    /\ UNCHANGED <<items, currentIndex, selectedIndices, activeRange,
                   resultsCache, mergeLines, External>>

\* loadFromCache: with an entry for sourceId, its items become the store's
\* items and the index and the selection are reset; without, nothing changes
loadFromCache ==
    /\ \E id \in SourceIds :
          IF HasKey(resultsCache, id)
          THEN /\ items' = (CHOOSE e \in SeqRange(resultsCache) : e.key = id).items
               /\ sourceId' = id
               /\ currentIndex' = 0
               /\ selectedIndices' = <<>>
               /\ activeRange' = NoValue
          ELSE UNCHANGED <<items, sourceId, currentIndex, selectedIndices,
                           activeRange>>
    /\ Called("loadFromCache", 0)
    /\ UNCHANGED <<resultsCache, mergeLines, External>>

\* nextImage: if (currentIndex < items.length - 1) set({currentIndex + 1, ...})
nextImage ==
    /\ IF currentIndex < Len(items) - 1
       THEN /\ currentIndex' = currentIndex + 1
            /\ selectedIndices' = <<>>
            /\ activeRange' = NoValue
       ELSE UNCHANGED <<currentIndex, selectedIndices, activeRange>>
    /\ Called("nextImage", 0)
    /\ UNCHANGED <<items, resultsCache, sourceId, mergeLines, External>>

\* prevImage: if (currentIndex > 0) set({currentIndex - 1, ...})
prevImage ==
    /\ IF currentIndex > 0
       THEN /\ currentIndex' = currentIndex - 1
            /\ selectedIndices' = <<>>
            /\ activeRange' = NoValue
       ELSE UNCHANGED <<currentIndex, selectedIndices, activeRange>>
    /\ Called("prevImage", 0)
    /\ UNCHANGED <<items, resultsCache, sourceId, mergeLines, External>>

\* reset: () => set({items: [], currentIndex: 0, selectedIndices: [],
\* activeRange: null})
reset ==
    /\ items' = <<>>
    /\ currentIndex' = 0
    /\ selectedIndices' = <<>>
    /\ activeRange' = NoValue
    /\ Called("reset", 0)
    /\ UNCHANGED <<resultsCache, sourceId, mergeLines, External>>

NextStore ==
    \/ setItems \/ setCurrentIndex \/ updateItem \/ setSelection
    \/ setActiveRange \/ saveToCache \/ setSourceId \/ loadFromCache
    \/ nextImage \/ prevImage \/ reset
    \/ toggleSelection \/ clearSelection \/ setMergeLines

SpecStore == InitStore /\ [][NextStore]_vars

IndexInRange ==
    IF items = <<>> THEN currentIndex = 0
    ELSE 0 <= currentIndex /\ currentIndex < Len(items)

\* A step that is nextImage on the last image (or without images),
\* prevImage on the first image, or setCurrentIndex with an index outside
\* the list
EdgeStep ==
    \/ store_call'.op = "nextImage" /\ currentIndex >= Len(items) - 1
    \/ store_call'.op = "prevImage" /\ currentIndex = 0
    \/ /\ store_call'.op = "setCurrentIndex"
       /\ (store_call'.arg < 0 \/ store_call'.arg >= Len(items))

\* C14: the index is 0 with no items and within the list otherwise;
\* nextImage on the last image, prevImage on the first and setCurrentIndex
\* with an index outside the list leave the whole store as it is.
C14_NavigationInRange ==
    /\ []IndexInRange
    /\ [][EdgeStep => UNCHANGED store_state]_vars

\* C14 witness: nextImage has just been called on the last of two images
\* while a box was selected.
C14_Witness ==
    /\ store_call # NoValue /\ store_call.op = "nextImage"
    /\ Len(items) = 2 /\ currentIndex = 1 /\ selectedIndices = <<0>>

(***************************************************************************)
(* warp_affine_bilinear at the border of the source (SpecWarp).            *)
(***************************************************************************)
\* (sx, sy) for destination pixel (dx, dy)
BackProjected(M, dx, dy) ==
    LET iM == InverseAffine(M)
    IN  [x |-> RAdd(RAdd(RMul(RInt(dy), iM[2]), iM[3]), RMul(RInt(dx), iM[1])),
         y |-> RAdd(RAdd(RMul(RInt(dy), iM[5]), iM[6]), RMul(RInt(dx), iM[4]))]

\* a clamped into [0, n - 1]
ClampCoord(a, n) ==
    IF RLt(a, RInt(0)) THEN RInt(0)
    ELSE IF RGt(a, RInt(n - 1)) THEN RInt(n - 1) ELSE a

\* The bilinear sample of channel ch at a coordinate inside the image
SampleAt(ch, src_w, src_h, cx, cy) ==
    LET x0 == RTrunc(cx)
        y0 == RTrunc(cy)
        x1 == Min(x0 + 1, src_w - 1)
        y1 == Min(y0 + 1, src_h - 1)
    IN  Bilinear(ch[y0 * src_w + x0 + 1], ch[y0 * src_w + x1 + 1],
                 ch[y1 * src_w + x0 + 1], ch[y1 * src_w + x1 + 1],
                 RSub(cx, RInt(x0)), RSub(cy, RInt(y0)))

OutsideSource(pt, src_w, src_h) ==
    \/ RLt(pt.x, RInt(0)) \/ RGt(pt.x, RInt(src_w - 1))
    \/ RLt(pt.y, RInt(0)) \/ RGt(pt.y, RInt(src_h - 1))

\* C15: every destination pixel whose source coordinate lies outside the
\* source holds the bilinear sample at the coordinate clamped per axis, and
\* so a value between the least and the greatest value of the channel.
C15_AsClaimed ==
    (warp_dst # NoValue /\ ~WarpDegenerate(warp_M)) =>
        \A c \in 1 .. 3 : \A k \in 1 .. warp_size[1] * warp_size[2] :
            LET pt == BackProjected(warp_M, (k - 1) % warp_size[1],
                                    (k - 1) \div warp_size[1])
                ch == warp_src.data[c]
            IN  OutsideSource(pt, warp_src.w, warp_src.h) =>
                  /\ warp_dst.data[c][k] =
                        SampleAt(ch, warp_src.w, warp_src.h,
                                 ClampCoord(pt.x, warp_src.w),
                                 ClampCoord(pt.y, warp_src.h))
                  /\ \E lo, hi \in 1 .. Len(ch) :
                        /\ RLe(ch[lo], warp_dst.data[c][k])
                        /\ RLe(warp_dst.data[c][k], ch[hi])

(***************************************************************************)
(* The orientation adjustments of detect_text (SpecBox).                   *)
(***************************************************************************)
\* After the adjustments the width field holds the extent along the fitted
\* principal axis (the fitted width) rather than the perpendicular one
WidthHoldsPrincipal(fitted) ==
    NormalizeOrientation(fitted).rrect.size.width = fitted.size.width

\* C16: among the fitted boxes of one orientation, the width field of the
\* adjusted rect holds the same one of the two fitted extents whichever
\* angle branch is taken: a box that got through the adjustments agrees
\* with every other fitted box of its orientation (taking the boxes that
\* are longer along their principal axis, as a fit of a text line is).
C16_AsClaimed ==
    (box_out # NoValue /\ IsObject(box_out)
        /\ RGt(box_in.fitted.size.width, box_in.fitted.size.height)) =>
        \A other \in FittedBoxes :
            ( /\ RGt(other.size.width, other.size.height)
              /\ NormalizeOrientation(other).orientation = box_out.orientation ) =>
                (WidthHoldsPrincipal(other) <=> WidthHoldsPrincipal(box_in.fitted))

(***************************************************************************)
(* Padding and remap of detect_text (SpecBox).                             *)
(***************************************************************************)
\* copy_make_border(in, in_pad, hpad / 2, hpad - hpad / 2, wpad / 2,
\* wpad - wpad / 2, ...): the border added on the left and on top
LeftBorder(wpad) == wpad \div 2
TopBorder(hpad) == hpad \div 2

\* The point of the original image whose image in the detection map, after
\* the resize by scale and the borders, is pt
OriginalPoint(pt, scale, wpad, hpad) ==
    [x |-> RDiv(RSub(pt.x, RInt(LeftBorder(wpad))), scale),
     y |-> RDiv(RSub(pt.y, RInt(TopBorder(hpad))), scale)]

\* C17: the centre of an appended box is the original-image point of the
\* fitted centre, for the borders copy_make_border actually adds, and the
\* sizes are the enlarged sizes divided by scale.
C17_AsClaimed ==
    (box_out # NoValue /\ IsObject(box_out)) =>
        LET enlarged == Enlarge(NormalizeOrientation(box_in.fitted).rrect)
        IN  /\ box_out.rrect.center =
                  OriginalPoint(box_in.fitted.center, box_in.scale,
                                box_in.wpad, box_in.hpad)
            /\ box_out.rrect.size.width = RDiv(enlarged.size.width, box_in.scale)
            /\ box_out.rrect.size.height = RDiv(enlarged.size.height, box_in.scale)

(***************************************************************************)
(* The reasons for which detect_text drops a scored, fitted component      *)
(* (SpecBox; the components are those the scan kept, of 6 pixels or more). *)
(***************************************************************************)
\* The box the loop body would append for the component in box_in
ProspectiveBox ==
    Remap(Enlarge(NormalizeOrientation(box_in.fitted).rrect),
          box_in.scale, box_in.wpad, box_in.hpad)

ScoreAccepted == RGe(box_in.score, box_thresh)

BothSidesAtLeastOne ==
    /\ RGe(ProspectiveBox.size.width, RInt(1))
    /\ RGe(ProspectiveBox.size.height, RInt(1))

MaxScanWidth == 4
ScanRows == 3

\* The surface of w x h whose pixels in `on` are just above the binary
\* threshold (0.31) and whose other pixels are 0 or, with atThreshold,
\* exactly at the threshold (0.3)
Bitmap(w, h, on, atThreshold) ==
    [w |-> w, h |-> h,
     blobs |-> {Blob(i % w, i \div w, 1, 1, Rat(31, 100)) : i \in on}
                 \cup (IF atThreshold
                       THEN {Blob(i % w, i \div w, 1, 1, Rat(3, 10)) :
                                i \in (0 .. w * h - 1) \ on}
                       ELSE {})]

\* Every bitmap of MaxScanWidth x ScanRows, and the 12 x 8 surfaces with up
\* to two of the blocks of PatchBlobs, L-shaped unions included
ScanSurfaces ==
    { Bitmap(MaxScanWidth, ScanRows, on, atThreshold) :
         on \in SUBSET (0 .. MaxScanWidth * ScanRows - 1), atThreshold \in BOOLEAN }
      \cup { [w |-> 12, h |-> 8, blobs |-> B] :
                B \in {S \in SUBSET PatchBlobs : Cardinality(S) <= 2 /\ Disjoint(S)} }

InitScan ==
    /\ scan_in \in ScanSurfaces
    /\ scan_out = NoValue
    /\ CoreIdle /\ ExtractIdle /\ CropIdle /\ OcrIdle /\ PluginIdle /\ JsonIdle /\ QueueIdle /\ StoreIdle

\* detect_text from `visited` and `contours` to the end of the scan
ScanComponents ==
    /\ scan_out = NoValue
    /\ scan_out' = [contours |-> FindContours(scan_in)]
    /\ UNCHANGED <<scan_in, core_vars, extract_vars, crop_vars, ocr_vars, plugin_vars, json_vars,
                   queue_vars, store_vars>>

NextScan == ScanComponents

SpecScan == InitScan /\ [][NextScan]_vars

\* The pixels whose value strictly exceeds 0.3 of full scale
ForegroundPixels(map) == {i \in 0 .. map.w * map.h - 1 : IsForeground(map, i)}

\* Two pixels that share an edge
EdgeAdjacent(map, a, b) ==
    \/ a \div map.w = b \div map.w /\ Abs((a % map.w) - (b % map.w)) = 1
    \/ a % map.w = b % map.w /\ Abs((a \div map.w) - (b \div map.w)) = 1

\* The least set of foreground pixels that includes S and every foreground
\* pixel sharing an edge with one of its pixels
RECURSIVE ConnectedClosure(_, _, _)
ConnectedClosure(map, fg, S) ==
    LET more == {b \in fg \ S : \E a \in S : EdgeAdjacent(map, a, b)}
    IN  IF more = {} THEN S ELSE ConnectedClosure(map, fg, S \cup more)

\* The maximal 4-connected sets of foreground pixels
Components(map) ==
    LET fg == ForegroundPixels(map)
    IN  {ConnectedClosure(map, fg, {p}) : p \in fg}

\* The pixels of a contour, as indices
PixelsOf(map, contour) ==
    {contour[k].y * map.w + contour[k].x : k \in 1 .. Len(contour)}

\* C19: the contours are exactly the maximal 4-connected sets of pixels
\* above the threshold that have at least 6 pixels, each once in the list;
\* a contour holds each of its pixels once.
C19_ComponentExtraction ==
    scan_out # NoValue =>
        LET found == scan_out.contours
            large == {c \in Components(scan_in) : Cardinality(c) >= 6}
        IN  /\ {PixelsOf(scan_in, found[k]) : k \in 1 .. Len(found)} = large
            /\ Len(found) = Cardinality(large)
            /\ \A k \in 1 .. Len(found) :
                  Len(found[k]) = Cardinality(PixelsOf(scan_in, found[k]))

\* C19 witness: two 3 x 2 blocks that touch at a corner only, (3, 2) and
\* (4, 3), have given two contours of 6 pixels.
C19_Witness ==
    /\ scan_out # NoValue
    /\ scan_in.blobs = {Blob(1, 1, 3, 2, Rat(9, 10)), Blob(4, 3, 3, 2, Rat(9, 10))}
    /\ Len(scan_out.contours) = 2
    /\ Len(scan_out.contours[1]) = 6 /\ Len(scan_out.contours[2]) = 6
    /\ [x |-> 3, y |-> 2] \in SeqRange(scan_out.contours[1])
    /\ [x |-> 4, y |-> 3] \in SeqRange(scan_out.contours[2])

(***************************************************************************)
(* SpecCrop: OCREngine::crop_and_warp_roi up to the call of the warp: the  *)
(* strip size, the crop window, the three source points and the transform. *)
(***************************************************************************)
target_height == 48
max_target_width == 2048
min_target_width == 16
margin == 10

\* A crop window that only clamps its origin.
CropExtentUnclamped(img_side, crop_origin, lo, hi) ==
    RTrunc(RSub(hi, lo)) + 2 * margin

\* std::min(img_w - crop_x, (int)(max_x - min_x) + 2 * margin)
CropExtent(img_side, crop_origin, lo, hi) ==
    Min(img_side - crop_origin, RTrunc(RSub(hi, lo)) + 2 * margin)

\* std::max(0, (int)min_x - margin)
CropOrigin(lo) == Max(0, RTrunc(lo) - margin)

\* A strip width without the cap of max_target_width.
StripWidthUncapped(size) ==
    LET rw == RMax(size.width, RInt(1))
        rh == RMax(size.height, RInt(1))
    IN  Max(RTrunc(RDiv(RMul(rh, RInt(target_height)), rw)), min_target_width)

\* final_w_int: rh * target_height / rw with both sides raised to 1, capped
\* at max_target_width, truncated, raised to 16
StripWidth(size) ==
    LET rw == RMax(size.width, RInt(1))
        rh == RMax(size.height, RInt(1))
        wanted == RDiv(RMul(rh, RInt(target_height)), rw)
        target_width == IF RGt(wanted, RInt(max_target_width))
                        THEN RInt(max_target_width) ELSE wanted
    IN  Max(RTrunc(target_width), min_target_width)

\* The locals of crop_and_warp_roi for an image of img_w x img_h and object,
\* and the size of the Mat that warp_affine_bilinear creates and returns
CropLocals(img_w, img_h, object) ==
    LET final_w_int == StripWidth(object.rrect.size)
        corners == points(object.rrect)
        min_x == RMinOf({RInt(img_w)} \cup {corners[k].x : k \in 1 .. 4})
        max_x == RMaxOf({RInt(0)} \cup {corners[k].x : k \in 1 .. 4})
        min_y == RMinOf({RInt(img_h)} \cup {corners[k].y : k \in 1 .. 4})
        max_y == RMaxOf({RInt(0)} \cup {corners[k].y : k \in 1 .. 4})
        crop_x == CropOrigin(min_x)
        crop_y == CropOrigin(min_y)
        crop_w == CropExtent(img_w, crop_x, min_x, max_x)
        crop_h == CropExtent(img_h, crop_y, min_y, max_y)
        moved(k) == Pt(RSub(corners[k].x, RInt(crop_x)),
                       RSub(corners[k].y, RInt(crop_y)))
        src == IF object.orientation = 0
               THEN <<moved(4), moved(1), moved(3)>>
               ELSE <<moved(2), moved(3), moved(1)>>
        dst == <<Pt(RInt(0), RInt(0)), Pt(RInt(final_w_int), RInt(0)),
                 Pt(RInt(0), RInt(target_height))>>
    IN  [final_w_int |-> final_w_int,
         roi_w |-> final_w_int, roi_h |-> target_height,
         crop_x |-> crop_x, crop_y |-> crop_y,
         crop_w |-> crop_w, crop_h |-> crop_h,
         src_pts |-> src, dst_pts |-> dst,
         M |-> get_affine_transform(src, dst).m]

\* Images of 1 to 40 pixels a side; boxes inside the image, across its
\* borders and wholly outside it, upright (angle 90, as detect_text leaves
\* an axis-aligned Horizontal box) or not, thin, ordinary and very long.
CropImageSides == {1, 5, 12, 40}
CropCentres == {RInt(-20), Rat(-1, 2), RInt(3), Rat(23, 2), RInt(39), RInt(60)}
CropSides == {Rat(1, 2), Rat(39, 10), RInt(30), RInt(100)}
CropInputs ==
    [img_w : CropImageSides, img_h : {1, 30},
     object : { [rrect |-> RRect(cx, cy, w, h, a), orientation |-> o,
                 prob |-> Rat(9, 10), text |-> <<>>] :
                   cx \in CropCentres, cy \in {RInt(-5), RInt(10), RInt(35)},
                   w \in CropSides, h \in CropSides,
                   a \in {RInt(0), RInt(90)}, o \in {0, 1} }]

InitCrop ==
    /\ crop_in \in CropInputs
    /\ crop_out = NoValue
    /\ CoreIdle /\ ExtractIdle /\ ScanIdle /\ JsonIdle /\ QueueIdle /\ StoreIdle
    /\ OcrIdle /\ PluginIdle

CropAndWarpRoi ==
    /\ crop_out = NoValue
    /\ crop_out' = CropLocals(crop_in.img_w, crop_in.img_h, crop_in.object)
    /\ UNCHANGED <<crop_in, core_vars, extract_vars, scan_vars, json_vars,
                   queue_vars, store_vars, ocr_vars, plugin_vars>>

NextCrop == CropAndWarpRoi

SpecCrop == InitCrop /\ [][NextCrop]_vars

\* The bytes of rgba_data that the memcpy of row y reads: from `first` to
\* `last`
RowRead(y) ==
    LET first == ((crop_out.crop_y + y) * crop_in.img_w + crop_out.crop_x) * 4
    IN  [first |-> first, last |-> first + crop_out.crop_w * 4 - 1]

\* C20: the crop window is not empty and lies inside the image, and every
\* row copied is read from inside the img_w * img_h * 4 bytes of the image.
C20_CropWindowInside ==
    crop_out # NoValue =>
        /\ crop_out.crop_x >= 0 /\ crop_out.crop_y >= 0
        /\ crop_out.crop_w >= 1 /\ crop_out.crop_h >= 1
        /\ crop_out.crop_x + crop_out.crop_w <= crop_in.img_w
        /\ crop_out.crop_y + crop_out.crop_h <= crop_in.img_h
        /\ \A y \in 0 .. crop_out.crop_h - 1 :
              /\ RowRead(y).first >= 0
              /\ RowRead(y).last < crop_in.img_w * crop_in.img_h * 4

\* C20 witness: a box wholly to the right of and below a 12 x 30 image
\* (centre (60, 35), 3.9 x 3.9) gives the window of 10 x 10 at (2, 20).
C20_Witness ==
    /\ crop_out # NoValue
    /\ crop_in.img_w = 12 /\ crop_in.img_h = 30
    /\ crop_in.object.rrect.center = Pt(RInt(60), RInt(35))
    /\ crop_in.object.rrect.size.width = Rat(39, 10)
    /\ crop_in.object.rrect.size.height = Rat(39, 10)
    /\ crop_out.crop_x = 2 /\ crop_out.crop_y = 20
    /\ crop_out.crop_w = 10 /\ crop_out.crop_h = 10

\* The sides of the region with the floor of 1 applied
FlooredSide(a) == IF RLt(a, RInt(1)) THEN RInt(1) ELSE a

\* W is the width the claim describes for a region of rw x rh: with
\* q = 48 * max(rh, 1) / max(rw, 1), W is 2048 when q >= 2048, 16 when
\* q < 16, and otherwise the integer with W <= q < W + 1.
IsCanonicalWidth(W, rw, rh) ==
    LET num == RMul(RInt(target_height), FlooredSide(rh))
        den == FlooredSide(rw)
    IN  IF RGe(num, RMul(RInt(max_target_width), den)) THEN W = max_target_width
        ELSE IF RLt(num, RMul(RInt(min_target_width), den))
             THEN W = min_target_width
        ELSE /\ RLe(RMul(RInt(W), den), num)
             /\ RLt(num, RMul(RInt(W + 1), den))

\* C21: the strip returned has height 48 and the canonical width, which
\* lies between 16 and 2048.
C21_StripDimensions ==
    crop_out # NoValue =>
        /\ crop_out.roi_h = target_height
        /\ crop_out.roi_w \in min_target_width .. max_target_width
        /\ IsCanonicalWidth(crop_out.roi_w, crop_in.object.rrect.size.width,
                            crop_in.object.rrect.size.height)

\* C21 witness: a region of 0.5 x 100 (width raised to 1, 4800 wanted)
\* gives a strip of 2048 x 48.
C21_Witness ==
    /\ crop_out # NoValue
    /\ crop_in.object.rrect.size = [width |-> Rat(1, 2), height |-> RInt(100)]
    /\ crop_out.roi_w = max_target_width
    /\ crop_out.roi_h = target_height

(***************************************************************************)
(* SpecOcrEngine: the OcrEngine class (services/OcrEngine.ts) and the      *)
(* worker's message handler.  A step is what JavaScript runs without       *)
(* interruption: a call up to its first await, the continuation of an      *)
(* await, or the handling of one message.                                  *)
(***************************************************************************)
MaxCalls == 3

Ops == {"init", "detect", "setThreshold"}

Msg(type, id, error) == [type |-> type, id |-> id, error |-> error]

NoCall ==
    [op |-> "none", pc |-> "idle", id |-> 0, outcome |-> "none",
     settledBy |-> <<>>, sent |-> FALSE, ready |-> FALSE,
     filesAtCall |-> FALSE]

\* `new OcrEngine(...)`: no worker, no initPromise, nextRequestId = 1
NewOcrEngine ==
    [worker |-> FALSE, initPromise |-> "none", initError |-> "none",
     initRun |-> "none", pendingRequests |-> {}, nextRequestId |-> 1]

\* The worker script as loaded: ocrModule = null, isInitialized = false
NewWorker == [inbox |-> <<>>, isInitialized |-> FALSE, creating |-> FALSE]

InitOcrEngine ==
    /\ ocr_engine = NewOcrEngine
    /\ ocr_files \in BOOLEAN
    /\ ocr_worker = NewWorker
    /\ ocr_replies = <<>>
    /\ ocr_calls = [c \in 1 .. MaxCalls |-> NoCall]
    /\ CoreIdle /\ ExtractIdle /\ ScanIdle /\ CropIdle /\ JsonIdle
    /\ QueueIdle /\ StoreIdle /\ PluginIdle

OcrExternal ==
    <<core_vars, extract_vars, scan_vars, crop_vars, json_vars, queue_vars,
      store_vars, plugin_vars>>

\* The statements of detect() and setThreshold() after `await this.init()`
\* has returned, for call c of operation op: [engine, worker, call].
AfterInit(engine, wk, c, op, entry) ==
    IF op = "init"
    THEN [engine |-> engine, worker |-> wk,
          call |-> [entry EXCEPT !.op = op, !.pc = "done", !.outcome = "returned"]]
    ELSE IF ~engine.worker
    THEN [engine |-> engine, worker |-> wk,
          call |-> [entry EXCEPT !.op = op, !.pc = "done",
                       !.outcome = IF op = "detect" THEN "Worker failed to start"
                                   ELSE "returned"]]
    ELSE IF op = "setThreshold"
    THEN [engine |-> engine,
          worker |-> [wk EXCEPT !.inbox = Append(@, Msg("set-threshold", 0, "none"))],
          call |-> [entry EXCEPT !.op = op, !.pc = "done", !.outcome = "returned",
                       !.sent = TRUE,
                       !.ready = engine.initPromise = "resolved"]]
    ELSE [engine |-> [engine EXCEPT !.nextRequestId = @ + 1,
                         !.pendingRequests = @ \cup {engine.nextRequestId}],
          worker |-> [wk EXCEPT !.inbox =
                         Append(@, Msg("detect", engine.nextRequestId, "none"))],
          call |-> [entry EXCEPT !.op = op, !.pc = "posted",
                       !.id = engine.nextRequestId, !.sent = TRUE,
                       !.ready = engine.initPromise = "resolved"]]

\* init() as called by call c of operation op (init itself, or the first
\* statement of detect and setThreshold)
init(c, op) ==
    /\ ocr_calls[c].pc = "idle"
    /\ \A k \in 1 .. c - 1 : ocr_calls[k].pc # "idle"
    /\ LET entry == [NoCall EXCEPT !.op = op, !.filesAtCall = ocr_files]
       IN  IF ocr_engine.worker
           THEN \* `if (this.worker) return;`
                LET after == AfterInit(ocr_engine, ocr_worker, c, op, entry)
                IN  /\ ocr_engine' = after.engine
                    /\ ocr_worker' = after.worker
                    /\ ocr_calls' = [ocr_calls EXCEPT ![c] = after.call]
           ELSE IF ocr_engine.initPromise # "none"
           THEN \* `if (this.initPromise) return this.initPromise;`
                /\ ocr_calls' = [ocr_calls EXCEPT ![c] = [entry EXCEPT !.pc = "waiting"]]
                /\ UNCHANGED <<ocr_engine, ocr_worker>>
           ELSE \* the executor runs up to `await this.checkModels()`
                /\ ocr_engine' = [ocr_engine EXCEPT !.worker = TRUE,
                                     !.initPromise = "pending",
                                     !.initRun = "checking"]
                /\ ocr_calls' = [ocr_calls EXCEPT ![c] = [entry EXCEPT !.pc = "waiting"]]
                /\ UNCHANGED ocr_worker
    /\ UNCHANGED <<ocr_files, ocr_replies, OcrExternal>>

\* checkModels() has answered: the executor goes on to load the files, or
\* throws, and the catch block clears the worker and rejects.
CheckModelsDone ==
    /\ ocr_engine.initRun = "checking"
    /\ ocr_engine' =
          IF ocr_files
          THEN [ocr_engine EXCEPT !.initRun = "loading"]
          ELSE [ocr_engine EXCEPT !.initRun = "ended", !.worker = FALSE,
                   !.initPromise = "rejected", !.initError = "Models not found"]
    /\ UNCHANGED <<ocr_files, ocr_worker, ocr_replies, ocr_calls, OcrExternal>>

\* The four files are read and the 'init' message is posted.
LoadModelsDone ==
    /\ ocr_engine.initRun = "loading"
    /\ ocr_engine' = [ocr_engine EXCEPT !.initRun = "ended"]
    /\ ocr_worker' = [ocr_worker EXCEPT !.inbox = Append(@, Msg("init", 0, "none"))]
    /\ UNCHANGED <<ocr_files, ocr_replies, ocr_calls, OcrExternal>>

\* downloadModels() has written the four files.
downloadModels ==
    /\ ~ocr_files
    /\ ocr_files' = TRUE
    /\ UNCHANGED <<ocr_engine, ocr_worker, ocr_replies, ocr_calls, OcrExternal>>

\* The continuation of `await this.init()` once initPromise is settled.
ResumeAfterInit(c) ==
    /\ ocr_calls[c].pc = "waiting"
    /\ ocr_engine.initPromise \in {"resolved", "rejected"}
    /\ IF ocr_engine.initPromise = "rejected"
       THEN /\ ocr_calls' = [ocr_calls EXCEPT ![c].pc = "done",
                                ![c].outcome = ocr_engine.initError]
            /\ UNCHANGED <<ocr_engine, ocr_worker>>
       ELSE LET after == AfterInit(ocr_engine, ocr_worker, c, ocr_calls[c].op,
                                   ocr_calls[c])
            IN  /\ ocr_engine' = after.engine
                /\ ocr_worker' = after.worker
                /\ ocr_calls' = [ocr_calls EXCEPT ![c] = after.call]
    /\ UNCHANGED <<ocr_files, ocr_replies, OcrExternal>>

\* The worker's onmessage for the message at the head of its queue.  An
\* 'init' suspends at `await createOcrModule`; 'detect' and 'set-threshold'
\* throw 'Worker not initialized' unless isInitialized; detect may also
\* fail inside the try block.
WorkerOnMessage(detectFails) ==
    /\ ocr_worker # NoValue /\ ocr_worker.inbox # <<>>
    /\ LET msg == Head(ocr_worker.inbox)
           rest == [ocr_worker EXCEPT !.inbox = Tail(@)]
       IN  CASE msg.type = "init" ->
                  IF ocr_worker.isInitialized
                  THEN /\ ocr_worker' = rest
                       /\ ocr_replies' = Append(ocr_replies, Msg("init-success", 0, "none"))
                  ELSE /\ ocr_worker' = [rest EXCEPT !.creating = TRUE]
                       /\ UNCHANGED ocr_replies
             [] msg.type = "detect" ->
                  /\ ocr_worker' = rest
                  /\ ocr_replies' = Append(ocr_replies,
                        IF ~ocr_worker.isInitialized
                        THEN Msg("detect-error", msg.id, "Worker not initialized")
                        ELSE IF detectFails
                        THEN Msg("detect-error", msg.id, "detect failed")
                        ELSE Msg("detect-success", msg.id, "none"))
             [] msg.type = "set-threshold" ->
                  /\ ocr_worker' = rest
                  /\ ocr_replies' =
                        IF ocr_worker.isInitialized
                        THEN Append(ocr_replies, Msg("set-threshold-success", 0, "none"))
                        ELSE ocr_replies
    /\ UNCHANGED <<ocr_engine, ocr_files, ocr_calls, OcrExternal>>

\* The rest of the worker's 'init' branch: the module is created, the models
\* are written and _init_ocr_model returns 0, or something throws.
WorkerInitDone(ok) ==
    /\ ocr_worker # NoValue /\ ocr_worker.creating
    /\ ocr_worker' = [ocr_worker EXCEPT !.creating = FALSE, !.isInitialized = ok]
    /\ ocr_replies' = Append(ocr_replies,
          IF ok THEN Msg("init-success", 0, "none")
          ELSE Msg("init-error", 0, "Init failed"))
    /\ UNCHANGED <<ocr_engine, ocr_files, ocr_calls, OcrExternal>>

\* A handler that settles the request and leaves its id in the map.
SettleWithoutDelete(engine, calls, msg) ==
    IF msg.id \notin engine.pendingRequests
    THEN [engine |-> engine, calls |-> calls]
    ELSE LET c == CHOOSE k \in DOMAIN calls : calls[k].id = msg.id
         IN  [engine |-> engine,
              calls |-> [calls EXCEPT ![c].pc = "done",
                            ![c].outcome = IF msg.type = "detect-success"
                                           THEN "results" ELSE msg.error,
                            ![c].settledBy = Append(@, msg)]]

\* worker.onmessage of the engine for 'detect-success' and 'detect-error':
\* `req = pendingRequests.get(msg.id); if (req) { settle; delete }`
SettleRequest(engine, calls, msg) ==
    IF msg.id \notin engine.pendingRequests
    THEN [engine |-> engine, calls |-> calls]
    ELSE LET c == CHOOSE k \in DOMAIN calls : calls[k].id = msg.id
         IN  [engine |-> [engine EXCEPT !.pendingRequests = @ \ {msg.id}],
              calls |-> [calls EXCEPT ![c].pc = "done",
                            ![c].outcome = IF msg.type = "detect-success"
                                           THEN "results" ELSE msg.error,
                            ![c].settledBy = Append(@, msg)]]

\* worker.onmessage of the engine for the message at the head of the queue;
\* resolve and reject of initPromise act on a pending promise only.
OnMessage ==
    /\ ocr_replies # <<>>
    /\ LET msg == Head(ocr_replies)
       IN  CASE msg.type = "init-success" ->
                  /\ ocr_engine' = IF ocr_engine.initPromise = "pending"
                                   THEN [ocr_engine EXCEPT !.initPromise = "resolved"]
                                   ELSE ocr_engine
                  /\ UNCHANGED ocr_calls
             [] msg.type = "init-error" ->
                  /\ ocr_engine' = IF ocr_engine.initPromise = "pending"
                                   THEN [ocr_engine EXCEPT !.initPromise = "rejected",
                                            !.initError = msg.error]
                                   ELSE ocr_engine
                  /\ UNCHANGED ocr_calls
             [] msg.type \in {"detect-success", "detect-error"} ->
                  LET after == SettleRequest(ocr_engine, ocr_calls, msg)
                  IN  /\ ocr_engine' = after.engine
                      /\ ocr_calls' = after.calls
             [] OTHER -> UNCHANGED <<ocr_engine, ocr_calls>>
    /\ ocr_replies' = Tail(ocr_replies)
    /\ UNCHANGED <<ocr_files, ocr_worker, OcrExternal>>

NextOcrEngine ==
    \/ \E c \in 1 .. MaxCalls, op \in Ops : init(c, op)
    \/ CheckModelsDone
    \/ LoadModelsDone
    \/ downloadModels
    \/ \E c \in 1 .. MaxCalls : ResumeAfterInit(c)
    \/ \E detectFails \in BOOLEAN : WorkerOnMessage(detectFails)
    \/ \E ok \in BOOLEAN : WorkerInitDone(ok)
    \/ OnMessage

SpecOcrEngine == InitOcrEngine /\ [][NextOcrEngine]_vars

\* C22 as claimed: every 'detect' and 'set-threshold' message was posted
\* after 'init-success' had been received, and no detect fails with 'Worker
\* not initialized' once the initialization has succeeded.
C22_AsClaimed ==
    ocr_calls # <<>> =>
        /\ \A c \in 1 .. MaxCalls :
              ocr_calls[c].sent => ocr_calls[c].ready
        /\ \A c \in 1 .. MaxCalls :
              (ocr_engine.initPromise = "resolved"
                  /\ ocr_worker.isInitialized) =>
                 ocr_calls[c].outcome # "Worker not initialized"

\* C24 as claimed: a failed initialization is not replayed: no call made
\* when the four model files are present ends with the 'Models not found'
\* of an earlier initialization.
C24_AsClaimed ==
    ocr_calls # <<>> =>
        \A c \in 1 .. MaxCalls :
           ocr_calls[c].filesAtCall =>
              ocr_calls[c].outcome # "Models not found"

\* The detect calls that have sent a request
Requests == {c \in 1 .. MaxCalls : ocr_calls[c].id > 0}

ReplyTypes == {"detect-success", "detect-error"}

\* C27: request ids are fresh; a request is settled at most once, by a
\* detect-success (resolve) or detect-error (reject) with its own id;
\* pendingRequests holds exactly the ids sent and not yet answered; a reply
\* with an id that is not pending changes nothing.
C27_RequestMatching ==
    ocr_calls # <<>> =>
        /\ \A c \in Requests :
              /\ ocr_calls[c].id < ocr_engine.nextRequestId
              /\ \A k \in Requests : k # c => ocr_calls[k].id # ocr_calls[c].id
              /\ Len(ocr_calls[c].settledBy) <= 1
              /\ (ocr_calls[c].pc = "done") = (ocr_calls[c].settledBy # <<>>)
              /\ \A n \in DOMAIN ocr_calls[c].settledBy :
                    LET by == ocr_calls[c].settledBy[n]
                    IN  /\ by.id = ocr_calls[c].id
                        /\ by.type \in ReplyTypes
                        /\ (by.type = "detect-success") =
                              (ocr_calls[c].outcome = "results")
                        /\ by.type = "detect-error" =>
                              ocr_calls[c].outcome = by.error
        /\ \A c \in (1 .. MaxCalls) \ Requests : ocr_calls[c].settledBy = <<>>
        /\ ocr_engine.pendingRequests =
              {ocr_calls[c].id : c \in {k \in Requests :
                                           ocr_calls[k].settledBy = <<>>}}
        /\ \A id \in (0 .. MaxCalls + 1) \ ocr_engine.pendingRequests,
              type \in ReplyTypes :
              SettleRequest(ocr_engine, ocr_calls, Msg(type, id, "late")) =
                 [engine |-> ocr_engine, calls |-> ocr_calls]

\* C27 witness: three requests were sent; the first was rejected by the
\* detect-error with id 1, the second resolved by the detect-success with
\* id 2, the third is still pending.
C27_Witness ==
    /\ ocr_calls # <<>>
    /\ \E a, b, c \in 1 .. MaxCalls :
          /\ ocr_calls[a].id = 1 /\ ocr_calls[a].outcome = "Worker not initialized"
          /\ ocr_calls[b].id = 2 /\ ocr_calls[b].outcome = "results"
          /\ ocr_calls[c].id = 3 /\ ocr_calls[c].pc = "posted"
    /\ ocr_engine.pendingRequests = {3}

(***************************************************************************)
(* SpecPlugin: OcrPlugin's analyzeFile / analyzeNote, processQueue and the *)
(* store subscription, on the store's items, resultsCache and sourceId.    *)
(* A step is a run up to the next await; zustand calls the subscription    *)
(* inside set().  p_hist notes, per list handed to setItems, which items   *)
(* were taken and detected.                                                *)
(***************************************************************************)
MaxLists == 2

\* analyzeFile makes one item of the file; analyzeNote one per image of the
\* note, here a note with the images a.png and b.png
FileSources == {"a.png", "c.png"}
NoteSources == {"n.md"}
ItemIdsOf(source) == IF source \in NoteSources THEN <<"a.png", "b.png">>
                     ELSE <<source>>

NewItems(source) ==
    [k \in 1 .. Len(ItemIdsOf(source)) |-> Item(ItemIdsOf(source)[k], "pending")]

PluginState ==
    [items |-> items, cache |-> resultsCache, sourceId |-> sourceId,
     procs |-> p_procs, hist |-> p_hist]

\* store.updateItem(id, {status})
UpdateStatus(list, id, status) ==
    [k \in 1 .. Len(list) |->
        IF list[k].id = id THEN Item(id, status) ELSE list[k]]

\* finalStore.saveToCache(finalStore.sourceId, finalStore.items)
SavedCache(cache, key, list) ==
    LET newCache == Append(Without(cache, key), [key |-> key, items |-> list])
    IN  IF Len(newCache) > CacheLimit THEN Tail(newCache) ELSE newCache

\* A status test that also takes an item another call is analysing.
TakesAnalyzing(item) == item.status \in {"pending", "analyzing"}

\* `if (currentItem.status === 'pending')`
Takes(item) == item.status = "pending"

RECURSIVE ProcessQueueFrom(_, _, _, _, _)
\* The subscription: `if (state.items !== prevState.items)` and some item
\* is pending, processQueue is called
OnItemsChanged(st) ==
    IF \E k \in 1 .. Len(st.items) : st.items[k].status = "pending"
    THEN ProcessQueueFrom(st, 1, Len(st.items), 0, st.hist.lists)
    ELSE st

\* processQueue from loop index i (1-based) of a call that captured a list
\* of n items (number `list`) and has processedCount = count, up to its next
\* await or its end
ProcessQueueFrom(st, i, n, count, list) ==
    IF i > n
    THEN LET ended == [st EXCEPT !.hist.done =
                          IF count > 0 /\ list = st.hist.lists
                          THEN @ \cup {st.hist.source} ELSE @]
         IN  IF count > 0 /\ st.sourceId # NoValue
             THEN [ended EXCEPT !.cache = SavedCache(st.cache, st.sourceId, st.items)]
             ELSE ended
    ELSE IF i > Len(st.items)
    THEN \* getState().items[i] is undefined: reading .status throws
         [st EXCEPT !.hist.oob = TRUE]
    ELSE IF Takes(st.items[i])
    THEN LET id == st.items[i].id
             taken == [st EXCEPT
                          !.items = UpdateStatus(@, id, "analyzing"),
                          !.hist.taken = Append(@, [list |-> st.hist.lists, id |-> id])]
             notified == OnItemsChanged(taken)
         IN  [notified EXCEPT !.procs =
                 Append(@, [i |-> i, n |-> n, count |-> count, id |-> id,
                            list |-> list, of |-> st.hist.lists])]
    ELSE ProcessQueueFrom(st, i + 1, n, count, list)

\* store.setItems(list) followed by `await this.processQueue()`
AnalyzeList(st, source) ==
    LET set == [st EXCEPT !.items = NewItems(source),
                          !.hist.lists = @ + 1, !.hist.source = source]
        notified == OnItemsChanged(set)
    IN  ProcessQueueFrom(notified, 1, Len(notified.items), 0, notified.hist.lists)

\* store.loadFromCache(path) with an entry for path
LoadedFromCache(st, path) ==
    LET loaded == [st EXCEPT
                      !.items = (CHOOSE e \in SeqRange(st.cache) :
                                    e.key = [path |-> path]).items,
                      !.sourceId = [path |-> path],
                      !.hist.cacheLoads = @ + 1]
    IN  OnItemsChanged(loaded)

Become(st) ==
    /\ items' = st.items
    /\ resultsCache' = st.cache
    /\ sourceId' = st.sourceId
    /\ p_procs' = st.procs
    /\ p_hist' = st.hist
    /\ UNCHANGED <<currentIndex, selectedIndices, activeRange, mergeLines,
                   store_call, core_vars, extract_vars, scan_vars, crop_vars,
                   json_vars, queue_vars, ocr_vars>>

InitPlugin ==
    /\ items = <<>> /\ currentIndex = 0 /\ selectedIndices = <<>>
    /\ activeRange = NoValue /\ resultsCache = <<>> /\ sourceId = NoValue
    /\ mergeLines = FALSE
    /\ store_call = NoValue
    /\ p_procs = <<>>
    /\ p_hist = [lists |-> 0, source |-> "none", taken |-> <<>>,
                 detects |-> <<>>, oob |-> FALSE, done |-> {}, cacheLoads |-> 0]
    /\ CoreIdle /\ ExtractIdle /\ ScanIdle /\ CropIdle /\ JsonIdle
    /\ QueueIdle /\ OcrIdle

\* analyzeFile(file) and analyzeNote(noteFile), after activateView
Analyze(source) ==
    /\ p_hist.lists < MaxLists
    /\ IF HasKey(resultsCache, [path |-> source])
       THEN Become(LoadedFromCache(PluginState, source))
       ELSE Become(AnalyzeList(PluginState, source))

\* The awaited load, decode and detect of call p end: with results, with
\* an exception of the load (no detect was called) or of detect; the item
\* is updated by id and the loop goes on.
Resume(p, outcome) ==
    /\ p \in 1 .. Len(p_procs)
    /\ LET proc == p_procs[p]
           status == IF outcome = "results" THEN "success" ELSE "error"
           st == PluginState
           written == [st EXCEPT
                          !.procs = RemoveAt(@, p),
                          !.items = UpdateStatus(@, proc.id, status),
                          !.hist.detects =
                             IF outcome = "load failed" THEN @
                             ELSE Append(@, [list |-> proc.of, id |-> proc.id])]
           notified == OnItemsChanged(written)
       IN  Become(ProcessQueueFrom(notified, proc.i + 1, proc.n,
                     proc.count + (IF outcome = "results" THEN 1 ELSE 0),
                     proc.list))

Outcomes == {"results", "load failed", "detect failed"}

NextPlugin ==
    \/ \E source \in FileSources \cup NoteSources : Analyze(source)
    \/ \E p \in 1 .. MaxLists * 2, outcome \in Outcomes : Resume(p, outcome)

SpecPlugin == InitPlugin /\ [][NextPlugin]_vars

\* How often the event occurs in the sequence
Occurrences(events, e) == Cardinality({k \in 1 .. Len(events) : events[k] = e})

\* C23: an item of a list is taken (pending -> analyzing) at most once and
\* detected at most once, only after it was taken; and every item of the
\* list in the store has been taken exactly once.
C23_AnalysedOnce ==
    p_hist # NoValue =>
        /\ \A k \in 1 .. Len(p_hist.taken) :
              Occurrences(p_hist.taken, p_hist.taken[k]) = 1
        /\ \A k \in 1 .. Len(p_hist.detects) :
              /\ Occurrences(p_hist.detects, p_hist.detects[k]) = 1
              /\ Occurrences(p_hist.taken, p_hist.detects[k]) = 1
        /\ \A k \in 1 .. Len(items) :
              Occurrences(p_hist.taken,
                          [list |-> p_hist.lists, id |-> items[k].id]) = 1

\* C23 witness: the note's two images were queued and a.png queued again
\* while they were analysed; each of the three items was taken once and
\* all calls have ended with a detect for each.
C23_Witness ==
    /\ p_hist # NoValue
    /\ p_hist.lists = 2
    /\ Len(p_hist.taken) = 3
    /\ Len(p_hist.detects) = 3
    /\ [list |-> 1, id |-> "a.png"] \in SeqRange(p_hist.detects)
    /\ [list |-> 2, id |-> "a.png"] \in SeqRange(p_hist.detects)
    /\ p_procs = <<>>

\* C25 as claimed: no call of processQueue reads an item at an index past
\* the end of the store's current list.
C25_AsClaimed == p_hist # NoValue => ~p_hist.oob

\* C26 as claimed: once the analysis of a source has ended with a
\* successfully analysed item, resultsCache has an entry for the source.
C26_AsClaimed ==
    p_hist # NoValue =>
        \A source \in p_hist.done : HasKey(resultsCache, [path |-> source])

\* A step of SpecStore is the call noted in store_call'
StoreStep(ops) == store_call' # store_call /\ store_call'.op \in ops

BothCleared == selectedIndices' = <<>> /\ activeRange' = NoValue

\* The calls that change the current image or replace the items: setItems
\* and reset always, setCurrentIndex with an index of the list, nextImage
\* before the last image, prevImage after the first, loadFromCache with an
\* entry for the source
ChangesImage ==
    \/ StoreStep({"setItems", "reset"})
    \/ StoreStep({"setCurrentIndex"})
          /\ store_call'.arg >= 0 /\ store_call'.arg < Len(items)
    \/ StoreStep({"nextImage"}) /\ currentIndex < Len(items) - 1
    \/ StoreStep({"prevImage"}) /\ currentIndex > 0
    \/ StoreStep({"loadFromCache"})
          /\ \E id \in SourceIds : HasKey(resultsCache, id)

RangeOnlyWithoutBoxes == activeRange # NoValue => selectedIndices = <<>>

\* C28: a range is active only while no box is selected; toggleSelection and
\* setSelection clear the range, setActiveRange clears the box selection,
\* and the calls that change the image or replace the items clear both and
\* leave mergeLines and resultsCache as they were.
C28_SelectionExclusive ==
    /\ []RangeOnlyWithoutBoxes
    /\ [][StoreStep({"toggleSelection", "setSelection"}) => activeRange' = NoValue]_vars
    /\ [][StoreStep({"setActiveRange"}) => selectedIndices' = <<>>]_vars
    /\ [][ChangesImage =>
             /\ BothCleared
             /\ mergeLines' = mergeLines
             /\ resultsCache' = resultsCache]_vars

\* C28 witness: with merging on and a cached list, setActiveRange has set
\* a range: the box selection is empty and the range is active.
C28_Witness ==
    /\ store_call # NoValue /\ store_call.op = "setActiveRange"
    /\ activeRange # NoValue
    /\ selectedIndices = <<>>
    /\ mergeLines
    /\ resultsCache # <<>>
====
